---- MODULE Spec2Model ----
(***************************************************************************)
(* AutoTubeFlow: the session-backed setup workflow.                        *)
(*   src/src/lib/session.ts                       the session cookie       *)
(*   src/src/ai/flows/auth-flows.ts               auth URLs, forkRepo      *)
(*   src/src/ai/flows/sheet-flows.ts              createSheet, addUrlToSheet*)
(*   src/src/app/api/auth/{google,github}/callback/route.ts   callbacks    *)
(* Every server action / route handler is one action; the answers of the   *)
(* external services (Google, YouTube, Gemini, GitHub) are chosen with \E. *)
(* Text is a sequence of one-character strings so that the URL pattern of  *)
(* extractVideoIdFromUrl is matched character by character.                *)
(***************************************************************************)
EXTENDS Integers, Sequences, FiniteSets, TLC

VARIABLES
  env,      \* process.env: which deployment settings are configured
  session,  \* the iron-session cookie (SessionData)
  files,    \* Drive: the spreadsheets named SHEET_NAME, in listing order
  github,   \* GitHub: the user's fork of the bot repository and its secrets
  last,     \* what the most recent handler did and returned
  norm,     \* inputs and results of the URL normalisation on its own
  inflight, \* the addUrlToSheet requests in progress, when requests overlap
  page,     \* the wizard page in the browser and its localStorage
  run,      \* the forkRepo run in progress, when it is followed await by await
  asked     \* history: the return URLs the authorization requests stored

vars == <<env, session, files, github, last, norm, inflight, page, run, asked>>

(***************************************************************************)
(* Text constants                                                          *)
(***************************************************************************)
LIT_youtube_com == <<"y","o","u","t","u","b","e",".","c","o","m","/">>
LIT_youtu_be == <<"y","o","u","t","u",".","b","e","/">>
LIT_shorts == <<"s","h","o","r","t","s","/">>
LIT_embed == <<"e","m","b","e","d">>
LIT_v_eq == <<"v","=">>
SHORTS_MARK == <<"/","s","h","o","r","t","s","/">>
WATCH_PREFIX == <<"h","t","t","p","s",":","/","/","w","w","w",".","y","o","u","t","u","b","e",".","c","o","m","/","w","a","t","c","h","?","v","=">>
SHORTS_PREFIX == <<"h","t","t","p","s",":","/","/","w","w","w",".","y","o","u","t","u","b","e",".","c","o","m","/","s","h","o","r","t","s","/">>

\* the length of the captured identifier, {11} in the pattern
IdLen == 11

\* extractVideoIdFromUrl returns null: no identifier
NULL_ID == <<>>

(***************************************************************************)
(* Sample inputs                                                           *)
(***************************************************************************)
ID_A == <<"d","Q","w","4","w","9","W","g","X","c","Q">>
ID_B == <<"9","b","Z","k","p","7","q","1","9","f","0">>
U_youtu_be == <<"h","t","t","p","s",":","/","/","y","o","u","t","u",".","b","e","/">>
U_embed == <<"h","t","t","p","s",":","/","/","w","w","w",".","y","o","u","t","u","b","e",".","c","o","m","/","e","m","b","e","d","/">>
U_v == <<"h","t","t","p","s",":","/","/","w","w","w",".","y","o","u","t","u","b","e",".","c","o","m","/","v","/">>
U_watch_feature == <<"h","t","t","p","s",":","/","/","w","w","w",".","y","o","u","t","u","b","e",".","c","o","m","/","w","a","t","c","h","?","f","e","a","t","u","r","e","=","s","h","a","r","e","&","v","=">>
U_example == <<"h","t","t","p","s",":","/","/","e","x","a","m","p","l","e",".","c","o","m","/","v","i","d","e","o">>
U_tail_shorts == <<"?","t","=","/","s","h","o","r","t","s","/">>
U_short_id == <<"d","Q","w","4","w","9","W","g">>

ShortLinkA == U_youtu_be \o ID_A
WatchA == WATCH_PREFIX \o ID_A
EmbedA == U_embed \o ID_A
VPathA == U_v \o ID_A
WatchFeatureA == U_watch_feature \o ID_A
ShortsA == SHORTS_PREFIX \o ID_A
ShortLinkB == U_youtu_be \o ID_B
WatchB == WATCH_PREFIX \o ID_B
ShortsB == SHORTS_PREFIX \o ID_B
\* a youtu.be short link whose query happens to contain "/shorts/"
ShortLinkShortsTailA == U_youtu_be \o ID_A \o U_tail_shorts
\* two path segments after /shorts/: the pattern's first alternative applies
ShortsNestedAB == SHORTS_PREFIX \o ID_A \o <<"/">> \o ID_B
\* fewer than 11 identifier characters
ShortLinkTooShort == U_youtu_be \o U_short_id
NoIdUrl == U_example

\* the URLs the normalisation is tried on
AllUrls ==
  { ShortLinkA, WatchA, EmbedA, VPathA, WatchFeatureA, ShortsA,
    ShortLinkB, WatchB, ShortsB,
    ShortLinkShortsTailA, ShortsNestedAB, ShortLinkTooShort, NoIdUrl }

(***************************************************************************)
(* extractVideoIdFromUrl: the pattern                                      *)
(*  (?:youtube\.com\/(?:[^\/]+\/.+\/|(?:v|e(?:mbed)?)\/|.*[?&]v=|shorts\/) *)
(*     |youtu\.be\/)([^"&?\/\s]{11})                                       *)
(* matched as JavaScript matches it: leftmost start, alternatives in       *)
(* order, greedy quantifiers.  Every operator returns the position where   *)
(* the captured group starts, or NoMatch.                                  *)
(***************************************************************************)
NoMatch == 0

Max(S) == CHOOSE x \in S : \A y \in S : y <= x
Min(S) == CHOOSE x \in S : \A y \in S : x <= y

\* [^"&?\/\s]
IsIdChar(c) == c \notin {"\"", "&", "?", "/", " "}

\* . (any character but a line terminator)
IsDotChar(c) == c # "\n"

LitAt(u, p, lit) ==
  /\ p >= 1
  /\ p + Len(lit) - 1 <= Len(u)
  /\ \A i \in 1..Len(lit) : u[p + i - 1] = lit[i]

\* ([^"&?\/\s]{11}) at position p
IdAt(u, p) ==
  /\ p >= 1
  /\ p + IdLen - 1 <= Len(u)
  /\ \A i \in p..(p + IdLen - 1) : IsIdChar(u[i])

\* [^\/]+\/.+\/ then the identifier
AltSegments(u, p) ==
  LET ok(n, m) ==
        /\ p + n + m + 1 <= Len(u)
        /\ u[p + n] = "/"
        /\ u[p + n + m + 1] = "/"
        /\ \A i \in p..(p + n - 1) : u[i] # "/"
        /\ \A i \in (p + n + 1)..(p + n + m) : IsDotChar(u[i])
        /\ IdAt(u, p + n + m + 2)
      ns == {n \in 1..Len(u) : \E m \in 1..Len(u) : ok(n, m)}
  IN IF ns = {} THEN NoMatch
     ELSE LET n == Max(ns)
              m == Max({k \in 1..Len(u) : ok(n, k)})
          IN p + n + m + 2

\* (?:v|e(?:mbed)?)\/ then the identifier
AltVOrEmbed(u, p) ==
  IF LitAt(u, p, <<"v", "/">>) /\ IdAt(u, p + 2) THEN p + 2
  ELSE IF LitAt(u, p, LIT_embed \o <<"/">>) /\ IdAt(u, p + 6) THEN p + 6
  ELSE IF LitAt(u, p, <<"e", "/">>) /\ IdAt(u, p + 2) THEN p + 2
  ELSE NoMatch

\* .*[?&]v= then the identifier
AltQueryV(u, p) ==
  LET ok(n) ==
        /\ p + n <= Len(u)
        /\ \A i \in p..(p + n - 1) : IsDotChar(u[i])
        /\ u[p + n] \in {"?", "&"}
        /\ LitAt(u, p + n + 1, LIT_v_eq)
        /\ IdAt(u, p + n + 3)
      ns == {n \in 0..Len(u) : ok(n)}
  IN IF ns = {} THEN NoMatch ELSE p + Max(ns) + 3

\* shorts\/ then the identifier
AltShorts(u, p) ==
  IF LitAt(u, p, LIT_shorts) /\ IdAt(u, p + Len(LIT_shorts))
  THEN p + Len(LIT_shorts) ELSE NoMatch

\* the whole pattern tried at start position s
MatchAt(u, s) ==
  LET p == s + Len(LIT_youtube_com)
      inner ==
        IF AltSegments(u, p) # NoMatch THEN AltSegments(u, p)
        ELSE IF AltVOrEmbed(u, p) # NoMatch THEN AltVOrEmbed(u, p)
        ELSE IF AltQueryV(u, p) # NoMatch THEN AltQueryV(u, p)
        ELSE AltShorts(u, p)
  IN IF LitAt(u, s, LIT_youtube_com) /\ inner # NoMatch THEN inner
     ELSE IF LitAt(u, s, LIT_youtu_be) /\ IdAt(u, s + Len(LIT_youtu_be))
          THEN s + Len(LIT_youtu_be)
     ELSE NoMatch

extractVideoIdFromUrl(url) ==
  LET starts == {s \in 1..Len(url) : MatchAt(url, s) # NoMatch}
  IN IF starts = {} THEN NULL_ID
     ELSE LET g == MatchAt(url, Min(starts))
          IN SubSeq(url, g, g + IdLen - 1)

\* url.includes('/shorts/')
IsShort(url) == \E s \in 1..Len(url) : LitAt(url, s, SHORTS_MARK)

\* mutant: the submitted URL is kept as it came
CanonicalUrl_keepInput(url, videoId) == url

\* isShort ? `https://www.youtube.com/shorts/${videoId}`
\*         : `https://www.youtube.com/watch?v=${videoId}`
CanonicalUrl(url, videoId) ==
  IF IsShort(url) THEN SHORTS_PREFIX \o videoId ELSE WATCH_PREFIX \o videoId


(***************************************************************************)
(* Constants of the program                                                *)
(***************************************************************************)
\* REQUIRED_COLUMNS; the Url and VideoId cells are text compared with URLs
REQUIRED_COLUMNS ==
  << <<"U","r","l">>, "Title", "Description", "DateAdded", "isProcessed",
     <<"V","i","d","e","o","I","d">> >>

\* the fork-visibility loop: for (let i = 0; i < 5; i++)
MaxAttempts == 5

\* the secrets object of forkRepo, in insertion order
SecretNames ==
  <<"YT_REFRESH_TOKEN", "GOOGLE_CLIENT_ID", "GOOGLE_CLIENT_SECRET", "SHEET_ID">>

\* messages returned to the caller
MSG_NONE == ""
MSG_SHEET_ERROR == "An error occurred while managing the sheet. Details: "
MSG_ADD_ERROR == "An error occurred while adding the URL. Details: "
MSG_NO_SHEET == "Google Sheet not configured. Please start over."
MSG_INVALID_URL == "Could not extract a valid YouTube video ID from the URL."
MSG_DUPLICATE == "This video URL is already in your Google Sheet."
MSG_NO_METADATA ==
  "Could not fetch video details from YouTube. Is the video public and the URL correct?"
MSG_ADDED == "The video has been added to your Google Sheet for processing."
MSG_NO_GITHUB == "GitHub not connected. Please go back to the previous step."
MSG_NO_GOOGLE ==
  "Google account not fully connected. Please try reconnecting Google."
MSG_NO_SHEET_ID == "Google Sheet ID not found. Please create the sheet first."
MSG_NO_FORK ==
  "Could not confirm repository fork. Please check your GitHub account and try again."
MSG_FORK_OK == "Repository forked and configured successfully!"
MSG_FORK_ERROR == "Failed to configure repository. Details: "
ERR_NOT_AUTHENTICATED == "User is not authenticated with Google."
ERR_NO_CLIENT_CREDENTIALS == "Google client credentials are not configured."
ERR_REFRESH == "Could not refresh authentication token. Please reconnect your Google account. Details: "
ERR_UPSTREAM == "upstream error"

(***************************************************************************)
(* Bounds of the model                                                     *)
(***************************************************************************)
\* rows a tracking sheet may hold before the model stops appending
MaxRows == 3
\* spreadsheets Drive may hold before the model stops creating
MaxFiles == 4

\* identifiers Drive hands out, in order of creation
DocIds == <<"sheet-1", "sheet-2", "sheet-3", "sheet-4", "sheet-5", "sheet-6">>

\* the URLs submitted to addUrlToSheet
AddUrls == {ShortLinkA, WatchA, ShortLinkShortsTailA, NoIdUrl}

\* the pages an authorization round trip starts from
ReturnUrls == {"https://app.example/", "https://app.example/?from=setup"}

(***************************************************************************)
(* State                                                                   *)
(***************************************************************************)
\* session.google_tokens: undefined, or credentials
NoTokens == [present |-> FALSE, refresh_token |-> FALSE, access |-> "none"]
Tokens(hasRefresh, access) ==
  [present |-> TRUE, refresh_token |-> hasRefresh, access |-> access]

\* SessionData; "" stands for undefined (both are falsy)
EmptySession ==
  [google_tokens |-> NoTokens, github_token |-> "", sheet_id |-> "",
   redirectUrl |-> ""]

EnvAll ==
  [NEXT_PUBLIC_BASE_URL |-> TRUE, GOOGLE_CLIENT_ID |-> TRUE,
   GOOGLE_CLIENT_SECRET |-> TRUE, GITHUB_CLIENT_ID |-> TRUE,
   GITHUB_CLIENT_SECRET |-> TRUE]
EnvNoSecrets ==
  [EnvAll EXCEPT !.GOOGLE_CLIENT_SECRET = FALSE, !.GITHUB_CLIENT_SECRET = FALSE]
EnvNone ==
  [NEXT_PUBLIC_BASE_URL |-> FALSE, GOOGLE_CLIENT_ID |-> FALSE,
   GOOGLE_CLIENT_SECRET |-> FALSE, GITHUB_CLIENT_ID |-> FALSE,
   GITHUB_CLIENT_SECRET |-> FALSE]
EnvConfigs == {EnvAll, EnvNoSecrets, EnvNone}

\* a spreadsheet named SHEET_NAME in the user's Drive
Doc(id, trashed, header) ==
  [id |-> id, trashed |-> trashed, header |-> header, rows |-> <<>>]

\* what Drive holds when the user first arrives
InitialDrives ==
  { <<>>,
    <<Doc(DocIds[1], TRUE, REQUIRED_COLUMNS),
      Doc(DocIds[2], FALSE, REQUIRED_COLUMNS \o <<"Notes">>),
      Doc(DocIds[3], FALSE, REQUIRED_COLUMNS)>> }

NoFork == [forked |-> FALSE, secrets |-> {}]

\* the record of one handler run
Outcome(op) ==
  [op |-> op, success |-> FALSE, threw |-> FALSE, message |-> MSG_NONE,
   detail |-> MSG_NONE, calls |-> <<>>, url |-> <<>>, videoId |-> NULL_ID,
   canonicalUrl |-> <<>>, row |-> <<>>, gen |-> "", sheetId |-> "",
   redirect |-> "", param |-> "", code |-> "", error |-> "", answer |-> ""]

\* the two request slots of the overlapping-requests specification
Slots == {1, 2}
IdleRequest == [pc |-> "idle", ext |-> "", seen |-> 0, ctx |-> ""]
NoRequests == [r \in Slots |-> IdleRequest]

\* the wizard before the page is first opened: nothing in localStorage
\* ("autotube-step" absent is stored = 0, "autotube-sheet-id" absent is
\* sheetStored = "") and the state of useState
ClosedPage ==
  [open |-> FALSE, step |-> 1, stored |-> 0, sheetStored |-> "",
   isGoogleConnected |-> FALSE, isGithubConnected |-> FALSE]

\* no forkRepo run in progress
IdleRun ==
  [pc |-> "idle", ext |-> "", i |-> 0, forkExists |-> FALSE, calls |-> <<>>,
   gh0 |-> NoFork]

\* the history of authorization requests: for each provider the return URL
\* its most recent request stored, until a callback of that provider answers
\* it, and the URL stored by the most recent request of either provider that
\* no callback has used yet ("" for none); it is kept only where on is set
NoHistory == [on |-> FALSE, google |-> "", github |-> "", pending |-> ""]
History == [NoHistory EXCEPT !.on = TRUE]

NormIdle == [a |-> <<>>, b |-> <<>>, done |-> FALSE,
             idA |-> NULL_ID, idB |-> NULL_ID, canA |-> <<>>, canB |-> <<>>]

Init ==
  /\ env \in EnvConfigs
  /\ session = EmptySession
  /\ files \in InitialDrives
  /\ github = NoFork
  /\ last = Outcome("init")
  /\ norm = NormIdle
  /\ inflight = NoRequests
  /\ page = ClosedPage
  /\ run = IdleRun
  /\ asked = NoHistory


\* mutant: a failed refresh leaves the stale tokens in the session
getGoogleApiClients_keepTokens(sess, expired, refreshOk) ==
  IF ~sess.google_tokens.present
  THEN [ok |-> FALSE, session |-> sess, error |-> ERR_NOT_AUTHENTICATED,
        calls |-> <<>>]
  ELSE IF ~env.GOOGLE_CLIENT_ID \/ ~env.GOOGLE_CLIENT_SECRET
  THEN [ok |-> FALSE, session |-> sess, error |-> ERR_NO_CLIENT_CREDENTIALS,
        calls |-> <<>>]
  ELSE IF expired
  THEN IF refreshOk /\ sess.google_tokens.refresh_token
       THEN [ok |-> TRUE,
             session |-> [sess EXCEPT !.google_tokens = Tokens(TRUE, "refreshed")],
             error |-> MSG_NONE, calls |-> <<"oauth2.refreshAccessToken">>]
       ELSE [ok |-> FALSE, session |-> sess,
             error |-> ERR_REFRESH, calls |-> <<"oauth2.refreshAccessToken">>]
  ELSE [ok |-> TRUE, session |-> sess, error |-> MSG_NONE, calls |-> <<>>]

(***************************************************************************)
(* getGoogleApiClients                                                     *)
(* expired:   new Date() >= (auth.credentials.expiry_date || 0)            *)
(* refreshOk: Google's token endpoint accepts the refresh token            *)
(* Returns whether clients were obtained, the session as saved, the error  *)
(* thrown and the external calls made.                                     *)
(***************************************************************************)
getGoogleApiClients(sess, expired, refreshOk) ==
  IF ~sess.google_tokens.present
  THEN [ok |-> FALSE, session |-> sess, error |-> ERR_NOT_AUTHENTICATED,
        calls |-> <<>>]
  ELSE IF ~env.GOOGLE_CLIENT_ID \/ ~env.GOOGLE_CLIENT_SECRET
  THEN [ok |-> FALSE, session |-> sess, error |-> ERR_NO_CLIENT_CREDENTIALS,
        calls |-> <<>>]
  ELSE IF expired
  THEN IF refreshOk /\ sess.google_tokens.refresh_token
       THEN [ok |-> TRUE,
             session |-> [sess EXCEPT !.google_tokens = Tokens(TRUE, "refreshed")],
             error |-> MSG_NONE, calls |-> <<"oauth2.refreshAccessToken">>]
       ELSE [ok |-> FALSE,
             session |-> [sess EXCEPT !.google_tokens = NoTokens],
             error |-> ERR_REFRESH, calls |-> <<"oauth2.refreshAccessToken">>]
  ELSE [ok |-> TRUE, session |-> sess, error |-> MSG_NONE, calls |-> <<>>]

(***************************************************************************)
(* createSheet                                                             *)
(***************************************************************************)
\* drive.files.list with name = SHEET_NAME and trashed = false
ListSheets(fs) == SelectSeq(fs, LAMBDA d : ~d.trashed)

\* values.update at Sheet1!A1 with [REQUIRED_COLUMNS]: the first cells of
\* row 1 are overwritten, cells further right are left as they are
UpdateHeader(header) ==
  [i \in 1..(IF Len(header) > Len(REQUIRED_COLUMNS) THEN Len(header)
             ELSE Len(REQUIRED_COLUMNS)) |->
     IF i <= Len(REQUIRED_COLUMNS) THEN REQUIRED_COLUMNS[i] ELSE header[i]]

IndexOfDoc(fs, id) == CHOOSE i \in 1..Len(fs) : fs[i].id = id

\* mutant: the search result is ignored and a sheet is always created
SheetExists_never(found) == FALSE

\* whether the flow takes the "sheet exists" branch
SheetExists(found) == Len(found) > 0

\* mutant: the second load reads the cookie the request arrived with
LoadSession_requestCookie(saved, arrived) == arrived

\* const session = await getIronSession(cookies(), sessionOptions) after
\* getGoogleApiClients has saved its own: the cookie store of a server action
\* answers with what was last set in it, so the load sees the saved session
\* (saved), not the one the request arrived with (arrived)
LoadSession(saved, arrived) == saved

\* fault: which Google call throws, if any ("none", "list", "write")
CreateSheetRun(sess, fs, expired, refreshOk, fault) ==
  LET g == getGoogleApiClients(sess, expired, refreshOk)
      out0 == [Outcome("createSheet") EXCEPT !.calls = g.calls]
      found == ListSheets(fs)
  IN IF ~g.ok
     THEN [session |-> g.session, files |-> fs,
           last |-> [out0 EXCEPT !.message = MSG_SHEET_ERROR, !.detail = g.error]]
     ELSE IF fault = "list"
     THEN [session |-> g.session, files |-> fs,
           last |-> [out0 EXCEPT !.message = MSG_SHEET_ERROR,
                                 !.detail = ERR_UPSTREAM,
                                 !.calls = g.calls \o <<"drive.files.list">>]]
     ELSE IF SheetExists(found)
     THEN LET sheetId == found[1].id
              calls == g.calls \o <<"drive.files.list", "sheets.values.update">>
          IN IF fault = "write"
             THEN [session |-> g.session, files |-> fs,
                   last |-> [out0 EXCEPT !.message = MSG_SHEET_ERROR,
                                         !.detail = ERR_UPSTREAM,
                                         !.calls = calls]]
             ELSE [session |-> [LoadSession(g.session, sess)
                                  EXCEPT !.sheet_id = sheetId],
                   files |-> [fs EXCEPT ![IndexOfDoc(fs, sheetId)].header =
                                UpdateHeader(@)],
                   last |-> [out0 EXCEPT !.success = TRUE, !.sheetId = sheetId,
                                         !.calls = calls]]
     ELSE LET sheetId == DocIds[Len(fs) + 1]
              calls == g.calls \o <<"drive.files.list", "sheets.spreadsheets.create">>
          IN IF fault = "write"
             THEN [session |-> g.session, files |-> fs,
                   last |-> [out0 EXCEPT !.message = MSG_SHEET_ERROR,
                                         !.detail = ERR_UPSTREAM,
                                         !.calls = calls]]
             ELSE [session |-> [LoadSession(g.session, sess)
                                  EXCEPT !.sheet_id = sheetId],
                   files |-> Append(fs, Doc(sheetId, FALSE, REQUIRED_COLUMNS)),
                   last |-> [out0 EXCEPT !.success = TRUE, !.sheetId = sheetId,
                                         !.calls = calls]]

createSheet ==
  \E expired \in BOOLEAN, refreshOk \in BOOLEAN, fault \in {"none", "list", "write"} :
    \E r \in {CreateSheetRun(session, files, expired, refreshOk, fault)} :
       /\ Len(r.files) <= MaxFiles
       /\ session' = r.session
       /\ files' = r.files
       /\ last' = r.last
       /\ UNCHANGED <<env, github, norm, inflight, page, run, asked>>


(***************************************************************************)
(* addUrlToSheet                                                           *)
(* The flow is a chain of stages; a stage that returns or throws marks the *)
(* run done and the later stages leave it alone.  ext holds the answers of *)
(* the outside world for this run:                                         *)
(*   expired, refreshOk   as in getGoogleApiClients                        *)
(*   fault   the call that throws: "none", "read", "youtube", "append"     *)
(*   yt      videos.list: "ok", "missing" (no item), "nosnippet"           *)
(*   gen     the prompt: "ok", "null" (no output), "throw"                 *)
(***************************************************************************)
ORIGINAL_TITLE == "original title"
ORIGINAL_DESCRIPTION == "original description"
OPTIMIZED_TITLE == "optimized title"
OPTIMIZED_DESCRIPTION == "optimized description"
\* new Date().toISOString().split('T')[0]
TODAY == "2024-05-01"

\* mutant: the catch block lets the error go on to the caller
Fail_rethrow(ctx, message, detail) ==
  [ctx EXCEPT !.done = TRUE,
              !.last = [@ EXCEPT !.success = FALSE, !.threw = TRUE,
                                 !.detail = detail]]

Fail(ctx, message, detail) ==
  [ctx EXCEPT !.done = TRUE,
              !.last = [@ EXCEPT !.success = FALSE, !.message = message,
                                 !.detail = detail]]

Called(ctx, call) == [ctx EXCEPT !.last.calls = Append(@, call)]

StartAddUrl(sess, fs, url) ==
  [done |-> FALSE, session |-> sess, files |-> fs,
   title |-> "", description |-> "",
   last |-> [Outcome("addUrlToSheet") EXCEPT !.url = url]]

\* const { sheets, youtube } = await getGoogleApiClients(); the sheet_id guard
StageClients(ctx, ext) ==
  LET g == getGoogleApiClients(ctx.session, ext.expired, ext.refreshOk)
      c == [ctx EXCEPT !.session = g.session, !.last.calls = @ \o g.calls]
  IN IF ~g.ok THEN Fail(c, MSG_ADD_ERROR, g.error)
     ELSE IF c.session.sheet_id = "" THEN Fail(c, MSG_NO_SHEET, MSG_NONE)
     ELSE [c EXCEPT !.last.sheetId = c.session.sheet_id]

\* videoId and canonicalUrl as the flow computes them; no canonical URL is
\* computed when there is no identifier
Normalized(url) ==
  LET videoId == extractVideoIdFromUrl(url)
  IN [videoId |-> videoId,
      canonicalUrl |-> IF videoId = NULL_ID THEN <<>>
                       ELSE CanonicalUrl(url, videoId)]

\* Normalized, computed once for every sample URL
NormalizedOf == [u \in AllUrls |-> Normalized(u)]

\* mutant: a missing identifier is not rejected
StageNormalize_noCheck(ctx) ==
  IF ctx.done THEN ctx
  ELSE LET n == NormalizedOf[ctx.last.url]
       IN [ctx EXCEPT !.last.videoId = n.videoId,
                      !.last.canonicalUrl = n.canonicalUrl]

\* 1. Normalize URL and extract Video ID
StageNormalize(ctx) ==
  IF ctx.done THEN ctx
  ELSE LET n == NormalizedOf[ctx.last.url]
       IN IF n.videoId = NULL_ID THEN Fail(ctx, MSG_INVALID_URL, MSG_NONE)
          ELSE [ctx EXCEPT !.last.videoId = n.videoId,
                           !.last.canonicalUrl = n.canonicalUrl]

\* readResponse.data.values?.flat() || [] for the range Sheet1!A:A
ColumnA(doc) ==
  (IF Len(doc.header) > 0 THEN <<doc.header[1]>> ELSE <<>>)
    \o [i \in 1..Len(doc.rows) |-> doc.rows[i][1]]

\* mutant: only the most recent row is compared
IsDuplicate_lastRowOnly(existingUrls, canonicalUrl) ==
  Len(existingUrls) > 0 /\ existingUrls[Len(existingUrls)] = canonicalUrl

\* existingUrls.includes(canonicalUrl)
IsDuplicate(existingUrls, canonicalUrl) ==
  \E i \in 1..Len(existingUrls) : existingUrls[i] = canonicalUrl

\* 2. Check for duplicates using the canonical URL
StageDuplicate(ctx, ext) ==
  IF ctx.done THEN ctx
  ELSE LET c == Called(ctx, "sheets.values.get")
           doc == c.files[IndexOfDoc(c.files, c.session.sheet_id)]
       IN IF ext.fault = "read" THEN Fail(c, MSG_ADD_ERROR, ERR_UPSTREAM)
          ELSE IF IsDuplicate(ColumnA(doc), c.last.canonicalUrl)
          THEN Fail(c, MSG_DUPLICATE, MSG_NONE)
          ELSE c

\* mutant: only a missing item is rejected, an item without a snippet goes on
StageFetch_snippetUnchecked(ctx, ext) ==
  IF ctx.done THEN ctx
  ELSE LET c == Called(ctx, "youtube.videos.list")
           a == [c EXCEPT !.last.answer = ext.yt]
       IN IF ext.fault = "youtube" THEN Fail(c, MSG_ADD_ERROR, ERR_UPSTREAM)
          ELSE IF ext.yt = "missing" THEN Fail(a, MSG_NO_METADATA, MSG_NONE)
          ELSE [a EXCEPT !.title = ORIGINAL_TITLE,
                         !.description = ORIGINAL_DESCRIPTION]

\* 3. Get video details from YouTube API: const video = items?.[0];
\* if (!video || !video.snippet) return the metadata failure
StageFetch(ctx, ext) ==
  IF ctx.done THEN ctx
  ELSE LET c == Called(ctx, "youtube.videos.list")
           a == [c EXCEPT !.last.answer = ext.yt]
       IN IF ext.fault = "youtube" THEN Fail(c, MSG_ADD_ERROR, ERR_UPSTREAM)
          ELSE IF ext.yt # "ok" THEN Fail(a, MSG_NO_METADATA, MSG_NONE)
          ELSE [a EXCEPT !.title = ORIGINAL_TITLE,
                         !.description = ORIGINAL_DESCRIPTION]

\* mutant: a failed rewrite leaves the fields blank
FinalDetails_blankOnFailure(title, description, gen) ==
  IF gen = "ok"
  THEN [title |-> OPTIMIZED_TITLE, description |-> OPTIMIZED_DESCRIPTION]
  ELSE [title |-> "", description |-> ""]

\* the try/catch around the prompt: output replaces the originals only when
\* the call returns one
FinalDetails(title, description, gen) ==
  IF gen = "ok"
  THEN [title |-> OPTIMIZED_TITLE, description |-> OPTIMIZED_DESCRIPTION]
  ELSE [title |-> title, description |-> description]

\* 4. Generate an optimized title and description with Gemini
StageRewrite(ctx, ext) ==
  IF ctx.done THEN ctx
  ELSE LET c == Called(ctx, "optimizeVideoDetailsPrompt")
           f == FinalDetails(c.title, c.description, ext.gen)
       IN [c EXCEPT !.title = f.title, !.description = f.description,
                    !.last.gen = ext.gen]

\* mutant: the identifier is written to the VideoId cell
NewRow_withVideoId(canonicalUrl, finalTitle, finalDescription, dateAdded, videoId) ==
  <<canonicalUrl, finalTitle, finalDescription, dateAdded, "FALSE", videoId>>

\* const newRow = [canonicalUrl, finalTitle, finalDescription, dateAdded,
\*                 'FALSE', '']
NewRow(canonicalUrl, finalTitle, finalDescription, dateAdded, videoId) ==
  <<canonicalUrl, finalTitle, finalDescription, dateAdded, "FALSE", <<>> >>

\* mutant: the row goes to the first document of the drive
StageAppend_firstDocument(ctx, ext) ==
  IF ctx.done THEN ctx
  ELSE LET c == Called(ctx, "sheets.values.append")
           row == NewRow(c.last.canonicalUrl, c.title, c.description, TODAY,
                         c.last.videoId)
       IN IF ext.fault = "append" THEN Fail(c, MSG_ADD_ERROR, ERR_UPSTREAM)
          ELSE [c EXCEPT !.done = TRUE,
                         !.files[1].rows = Append(@, row),
                         !.last.success = TRUE,
                         !.last.message = MSG_ADDED,
                         !.last.row = row]

\* 5. Append new row with all details
StageAppend(ctx, ext) ==
  IF ctx.done THEN ctx
  ELSE LET c == Called(ctx, "sheets.values.append")
           row == NewRow(c.last.canonicalUrl, c.title, c.description, TODAY,
                         c.last.videoId)
           k == IndexOfDoc(c.files, c.session.sheet_id)
       IN IF ext.fault = "append" THEN Fail(c, MSG_ADD_ERROR, ERR_UPSTREAM)
          ELSE [c EXCEPT !.done = TRUE,
                         !.files[k].rows = Append(@, row),
                         !.last.success = TRUE,
                         !.last.message = MSG_ADDED,
                         !.last.row = row]

\* mutant: the metadata fetch and the rewrite run before the duplicate check
AddUrlRun_fetchFirst(sess, fs, url, ext) ==
  CHOOSE r \in
    { StageAppend(s5, ext) : s5 \in
    { StageDuplicate(s4, ext) : s4 \in
    { StageRewrite(s3, ext) : s3 \in
    { StageFetch(s2, ext) : s2 \in
    { StageNormalize(s1) : s1 \in
    { StageClients(s0, ext) : s0 \in
    { StartAddUrl(sess, fs, url) } } } } } } } : TRUE

\* the body of the flow, in the order of the source: each stage takes the
\* context the stage before it left
AddUrlRun(sess, fs, url, ext) ==
  CHOOSE r \in
    { StageAppend(s5, ext) : s5 \in
    { StageRewrite(s4, ext) : s4 \in
    { StageFetch(s3, ext) : s3 \in
    { StageDuplicate(s2, ext) : s2 \in
    { StageNormalize(s1) : s1 \in
    { StageClients(s0, ext) : s0 \in
    { StartAddUrl(sess, fs, url) } } } } } } } : TRUE

\* the answers of the outside world worth telling apart
AddUrlExts ==
  { e \in [expired : BOOLEAN, refreshOk : BOOLEAN,
           fault : {"none", "read", "youtube", "append"},
           yt : {"ok", "missing", "nosnippet"},
           gen : {"ok", "null", "throw"}] :
      /\ (~e.expired => e.refreshOk)
      /\ (e.fault \in {"read", "youtube"} => e.yt = "ok" /\ e.gen = "ok")
      /\ (e.fault = "append" => e.yt = "ok")
      /\ (e.yt # "ok" => e.gen = "ok") }

RowsOk(fs) == \A i \in 1..Len(fs) : Len(fs[i].rows) <= MaxRows

addUrlToSheetOn(urls, exts) ==
  \E url \in urls, ext \in exts :
    \E r \in {AddUrlRun(session, files, url, ext)} :
       /\ RowsOk(r.files)
       /\ session' = r.session
       /\ files' = r.files
       /\ last' = r.last
       /\ UNCHANGED <<env, github, norm, inflight, page, run, asked>>

addUrlToSheet == addUrlToSheetOn(AddUrls, AddUrlExts)

\* the whole workflow submits one video, with the services answering
BriefUrls == {WatchA, NoIdUrl}
BriefExts ==
  {e \in AddUrlExts : e.fault = "none" /\ e.gen = "ok" /\ e.yt \in {"ok", "missing"}}

addUrlToSheetBrief == addUrlToSheetOn(BriefUrls, BriefExts)

(***************************************************************************)
(* forkRepo                                                                *)
(* ext: fault      the GitHub call that throws: "none", "user", "fork",    *)
(*                 "key", "secret"                                         *)
(*      visibleAt  the first repos.get that finds the fork                 *)
(*                 (MaxAttempts + 1: none does)                            *)
(*      failAt     the secret write that throws when fault = "secret"      *)
(***************************************************************************)
DELAY_2S == "setTimeout(2000)"
DELAY_1S == "setTimeout(1000)"
\* octokit.rest.repos.get answering, and throwing
REPOS_GET_OK == "repos.get: found"
REPOS_GET_FAIL == "repos.get: not found"

\* mutant: the fork is taken to be there once the lookups are used up
RECURSIVE PollFork_assumeVisible(_, _, _)
PollFork_assumeVisible(i, visibleAt, calls) ==
  IF i >= MaxAttempts THEN [forkExists |-> TRUE, calls |-> calls]
  ELSE IF i + 1 >= visibleAt
       THEN [forkExists |-> TRUE, calls |-> Append(calls, REPOS_GET_OK)]
       ELSE PollFork_assumeVisible(i + 1, visibleAt,
                                   calls \o <<REPOS_GET_FAIL, DELAY_2S>>)

\* for (let i = 0; i < 5; i++) { try { repos.get; forkExists = true; break }
\*                               catch { wait 2 seconds } }
RECURSIVE PollFork(_, _, _)
PollFork(i, visibleAt, calls) ==
  IF i >= MaxAttempts THEN [forkExists |-> FALSE, calls |-> calls]
  ELSE IF i + 1 >= visibleAt
       THEN [forkExists |-> TRUE, calls |-> Append(calls, REPOS_GET_OK)]
       ELSE PollFork(i + 1, visibleAt, calls \o <<REPOS_GET_FAIL, DELAY_2S>>)

\* mutant: a refused write undoes the secrets written before it in the run
WriteSecrets_rollback(i, failAt, written, calls) ==
  IF failAt \in i..Len(SecretNames)
  THEN [ok |-> FALSE, written |-> {},
        calls |-> calls \o SubSeq(SecretNames, i, failAt)]
  ELSE [ok |-> TRUE,
        written |-> written \cup {SecretNames[k] : k \in i..Len(SecretNames)},
        calls |-> calls \o SubSeq(SecretNames, i, Len(SecretNames))]

\* for (const [name, value] of Object.entries(secrets)) createOrUpdateRepoSecret
RECURSIVE WriteSecrets(_, _, _, _)
WriteSecrets(i, failAt, written, calls) ==
  IF i > Len(SecretNames)
  THEN [ok |-> TRUE, written |-> written, calls |-> calls]
  ELSE IF i = failAt
       THEN [ok |-> FALSE, written |-> written,
             calls |-> Append(calls, SecretNames[i])]
       ELSE WriteSecrets(i + 1, failAt, written \cup {SecretNames[i]},
                         Append(calls, SecretNames[i]))

\* mutant: the Google guard comes before the GitHub guard
ForkPrecondition_googleFirst(sess) ==
  IF ~sess.google_tokens.present \/ ~sess.google_tokens.refresh_token
  THEN MSG_NO_GOOGLE
  ELSE IF sess.github_token = "" THEN MSG_NO_GITHUB
  ELSE IF sess.sheet_id = "" THEN MSG_NO_SHEET_ID
  ELSE MSG_NONE

\* mutant: the sheet identifier is not checked
ForkPrecondition_noSheetCheck(sess) ==
  IF sess.github_token = "" THEN MSG_NO_GITHUB
  ELSE IF ~sess.google_tokens.present \/ ~sess.google_tokens.refresh_token
       THEN MSG_NO_GOOGLE
  ELSE MSG_NONE

\* the three guards before the Octokit client is made
ForkPrecondition(sess) ==
  IF sess.github_token = "" THEN MSG_NO_GITHUB
  ELSE IF ~sess.google_tokens.present \/ ~sess.google_tokens.refresh_token
       THEN MSG_NO_GOOGLE
  ELSE IF sess.sheet_id = "" THEN MSG_NO_SHEET_ID
  ELSE MSG_NONE

\* mutant: the flow goes on whatever the poll found
ForkConfirmed_always(poll) == TRUE

\* if (!forkExists) return the "could not confirm" outcome
ForkConfirmed(poll) == poll.forkExists

ForkRepoRun(sess, gh, ext) ==
  LET out0 == Outcome("forkRepo")
      pre == ForkPrecondition(sess)
      failed(g, calls) ==
        [github |-> g,
         last |-> [out0 EXCEPT !.message = MSG_FORK_ERROR,
                               !.detail = ERR_UPSTREAM, !.calls = calls]]
      forked == [gh EXCEPT !.forked = TRUE]
      poll == PollFork(0, ext.visibleAt,
                       <<"users.getAuthenticated", "repos.createFork">>)
      keyCalls == poll.calls \o <<DELAY_1S, "actions.getRepoPublicKey">>
      w == WriteSecrets(1, IF ext.fault = "secret" THEN ext.failAt ELSE 0,
                        {}, keyCalls)
      after == [forked EXCEPT !.secrets = @ \cup w.written]
  IN IF pre # MSG_NONE
     THEN [github |-> gh, last |-> [out0 EXCEPT !.message = pre]]
     ELSE IF ext.fault = "user"
     THEN failed(gh, <<"users.getAuthenticated">>)
     ELSE IF ext.fault = "fork"
     THEN failed(gh, <<"users.getAuthenticated", "repos.createFork">>)
     ELSE IF ~ForkConfirmed(poll)
     THEN [github |-> forked,
           last |-> [out0 EXCEPT !.message = MSG_NO_FORK, !.calls = poll.calls]]
     ELSE IF ext.fault = "key"
     THEN failed(forked, keyCalls)
     ELSE IF ~w.ok
     THEN failed(after, w.calls)
     ELSE [github |-> after,
           last |-> [out0 EXCEPT !.success = TRUE, !.message = MSG_FORK_OK,
                                 !.calls = w.calls]]

ForkExts ==
  { e \in [fault : {"none", "user", "fork", "key", "secret"},
           visibleAt : 1..(MaxAttempts + 1),
           failAt : 1..Len(SecretNames)] :
      /\ (e.fault \in {"user", "fork"} => e.visibleAt = 1)
      /\ (e.fault # "secret" => e.failAt = 1)
      /\ (e.visibleAt > MaxAttempts => e.fault = "none") }

forkRepo ==
  \E ext \in ForkExts :
    \E r \in {ForkRepoRun(session, github, ext)} :
       /\ github' = r.github
       /\ last' = r.last
       /\ UNCHANGED <<env, session, files, norm, inflight, page, run, asked>>


(***************************************************************************)
(* getGoogleAuthUrl, getGithubAuthUrl                                      *)
(***************************************************************************)
\* the history after a request of the provider stored url
Asked(h, provider, url) ==
  IF ~h.on THEN h
  ELSE IF provider = "google" THEN [h EXCEPT !.google = url, !.pending = url]
  ELSE [h EXCEPT !.github = url, !.pending = url]

\* the history after a callback of the provider has read and cleared the
\* stored URL
Answered(h, provider) ==
  IF ~h.on THEN h
  ELSE IF provider = "google" THEN [h EXCEPT !.google = "", !.pending = ""]
  ELSE [h EXCEPT !.github = "", !.pending = ""]

\* mutant: the client secret is not asked for
GoogleOAuthConfigured_noSecret ==
  env.NEXT_PUBLIC_BASE_URL /\ env.GOOGLE_CLIENT_ID

\* getGoogleOAuth2Client of auth-flows.ts throws when a setting is missing
GoogleOAuthConfigured ==
  env.NEXT_PUBLIC_BASE_URL /\ env.GOOGLE_CLIENT_ID /\ env.GOOGLE_CLIENT_SECRET

\* the body of getGoogleAuthUrl: the client is made (or throws), the return
\* URL is stored and the session saved
GoogleAuthUrlRun(sess, originalUrl) ==
  LET out0 == [Outcome("getGoogleAuthUrl") EXCEPT !.url = originalUrl]
  IN IF ~GoogleOAuthConfigured
     THEN [session |-> sess, last |-> [out0 EXCEPT !.threw = TRUE]]
     ELSE [session |-> [sess EXCEPT !.redirectUrl = originalUrl],
           last |-> [out0 EXCEPT !.success = TRUE]]

getGoogleAuthUrl ==
  \E originalUrl \in ReturnUrls :
    \E r \in {GoogleAuthUrlRun(session, originalUrl)} :
       /\ session' = r.session
       /\ last' = r.last
       /\ asked' = IF r.last.success
                   THEN Asked(asked, "google", originalUrl) ELSE asked
       /\ UNCHANGED <<env, files, github, norm, inflight, page, run>>

\* the body of getGithubAuthUrl
GithubAuthUrlRun(sess, originalUrl) ==
  LET out0 == [Outcome("getGithubAuthUrl") EXCEPT !.url = originalUrl]
  IN IF ~env.GITHUB_CLIENT_ID \/ ~env.NEXT_PUBLIC_BASE_URL
     THEN [session |-> sess, last |-> [out0 EXCEPT !.threw = TRUE]]
     ELSE [session |-> [sess EXCEPT !.redirectUrl = originalUrl],
           last |-> [out0 EXCEPT !.success = TRUE]]

getGithubAuthUrl ==
  \E originalUrl \in ReturnUrls :
    \E r \in {GithubAuthUrlRun(session, originalUrl)} :
       /\ session' = r.session
       /\ last' = r.last
       /\ asked' = IF r.last.success
                   THEN Asked(asked, "github", originalUrl) ELSE asked
       /\ UNCHANGED <<env, files, github, norm, inflight, page, run>>

(***************************************************************************)
(* The callback route handlers                                             *)
(* code, error: the query parameters ("" when absent)                      *)
(* answer: what the provider's token endpoint does with the code           *)
(***************************************************************************)
GOOGLE_AUTH_SUCCESS == "google_auth_success"
GOOGLE_AUTH_ERROR == "google_auth_error"
GITHUB_AUTH_SUCCESS == "github_auth_success"
GITHUB_AUTH_ERROR == "github_auth_error"
UNKNOWN_ERROR == "Unknown error"
ERR_GITHUB_NOT_CONFIGURED == "GitHub credentials not configured on server."
ERR_EXCHANGE == "token exchange failed"

\* mutant: the browser is always sent to the site root
OriginalUrl_root(sess) == "/"

\* const originalUrl = session.redirectUrl || '/'
OriginalUrl(sess) == IF sess.redirectUrl = "" THEN "/" ELSE sess.redirectUrl

\* mutant: the handler starts from a session with nothing in it
ClearRedirect_all(sess) ==
  [sess EXCEPT !.redirectUrl = "", !.google_tokens = NoTokens,
               !.github_token = ""]

\* mutant: the stored return URL is left in the session
ClearRedirect_keep(sess) == sess

\* session.redirectUrl = undefined
ClearRedirect(sess) == [sess EXCEPT !.redirectUrl = ""]

\* searchParams.get('error') || 'Unknown error'
ErrorParam(error) == IF error = "" THEN UNKNOWN_ERROR ELSE error

\* GET of app/api/auth/google/callback/route.ts
GoogleCallbackRun(sess, code, error, answer) ==
  LET out0 == [Outcome("googleCallback") EXCEPT !.redirect = OriginalUrl(sess),
                                                  !.code = code, !.error = error]
      cleared == ClearRedirect(sess)
      exchanged == answer # "fail" /\ GoogleOAuthConfigured
  IN IF code = ""
     THEN [session |-> cleared,
           last |-> [out0 EXCEPT !.param = GOOGLE_AUTH_ERROR,
                                 !.detail = ErrorParam(error)]]
     ELSE IF exchanged
     THEN [session |-> [cleared EXCEPT !.google_tokens =
                          Tokens(answer = "tokens+refresh", "issued")],
           last |-> [out0 EXCEPT !.success = TRUE,
                                 !.param = GOOGLE_AUTH_SUCCESS,
                                 !.answer = answer,
                                 !.calls = <<"oauth2.getToken">>]]
     ELSE [session |-> cleared,
           last |-> [out0 EXCEPT !.param = GOOGLE_AUTH_ERROR,
                                 !.detail = ERR_EXCHANGE,
                                 !.answer = answer,
                                 !.calls = <<"oauth2.getToken">>]]

GoogleCallbackGET ==
  \E code \in {"", "code"}, error \in {"", "access_denied"},
     answer \in {"tokens+refresh", "tokens", "fail"} :
    \E r \in {GoogleCallbackRun(session, code, error, answer)} :
       /\ session' = r.session
       /\ last' = r.last
       /\ asked' = Answered(asked, "google")
       /\ UNCHANGED <<env, files, github, norm, inflight, page, run>>

\* what the body of GitHub's answer holds; "fail" is a request that threw
GithubAnswers == {"token", "error", "token+error", "empty", "fail"}
HasErrorField(answer) == answer \in {"error", "token+error"}
HasAccessToken(answer) == answer \in {"token", "token+error"}

\* mutant: an answer is accepted as soon as it holds a token
GithubExchangeOk_ignoreError(answer) == HasAccessToken(answer)

\* if (data.error || !data.access_token) throw ...
GithubExchangeOk(answer) ==
  ~(HasErrorField(answer) \/ ~HasAccessToken(answer))

\* GET of app/api/auth/github/callback/route.ts
GithubCallbackRun(sess, code, error, answer) ==
  LET out0 == [Outcome("githubCallback") EXCEPT !.redirect = OriginalUrl(sess),
                                                  !.code = code, !.error = error]
      cleared == ClearRedirect(sess)
  IN IF code = ""
     THEN [session |-> cleared,
           last |-> [out0 EXCEPT !.param = GITHUB_AUTH_ERROR,
                                 !.detail = ErrorParam(error)]]
     ELSE IF ~env.GITHUB_CLIENT_ID \/ ~env.GITHUB_CLIENT_SECRET
     THEN [session |-> cleared,
           last |-> [out0 EXCEPT !.param = GITHUB_AUTH_ERROR,
                                 !.detail = ERR_GITHUB_NOT_CONFIGURED]]
     ELSE IF GithubExchangeOk(answer)
     THEN [session |-> [cleared EXCEPT !.github_token = "gho_token"],
           last |-> [out0 EXCEPT !.success = TRUE,
                                 !.param = GITHUB_AUTH_SUCCESS,
                                 !.answer = answer,
                                 !.calls = <<"github.access_token">>]]
     ELSE [session |-> cleared,
           last |-> [out0 EXCEPT !.param = GITHUB_AUTH_ERROR,
                                 !.detail = ERR_EXCHANGE,
                                 !.answer = answer,
                                 !.calls = <<"github.access_token">>]]

GithubCallbackGET ==
  \E code \in {"", "code"}, error \in {"", "access_denied"},
     answer \in GithubAnswers :
    \E r \in {GithubCallbackRun(session, code, error, answer)} :
       /\ session' = r.session
       /\ last' = r.last
       /\ asked' = Answered(asked, "github")
       /\ UNCHANGED <<env, files, github, norm, inflight, page, run>>

(***************************************************************************)
(* The workflow: any handler may be called at any time, one at a time      *)
(***************************************************************************)
Next ==
  \/ getGoogleAuthUrl
  \/ getGithubAuthUrl
  \/ GoogleCallbackGET
  \/ GithubCallbackGET
  \/ createSheet
  \/ addUrlToSheetBrief
  \/ forkRepo

Spec == Init /\ [][Next]_vars

(***************************************************************************)
(* The spreadsheet flows on their own: Google is connected, the tracking   *)
(* sheet is made and URLs are submitted, with every answer of the services *)
(***************************************************************************)
InitSheet ==
  /\ env = EnvAll
  /\ session = EmptySession
  /\ files \in InitialDrives
  /\ github = NoFork
  /\ last = Outcome("init")
  /\ norm = NormIdle
  /\ inflight = NoRequests
  /\ page = ClosedPage
  /\ run = IdleRun
  /\ asked = NoHistory

NextSheet ==
  \/ GoogleCallbackGET
  \/ createSheet
  \/ addUrlToSheet

SpecSheet == InitSheet /\ [][NextSheet]_vars

(***************************************************************************)
(* The normalisation of addUrlToSheet applied to two URLs                  *)
(***************************************************************************)
InitNorm ==
  /\ env = EnvAll
  /\ session = EmptySession
  /\ files = <<>>
  /\ github = NoFork
  /\ last = Outcome("init")
  /\ norm \in {[NormIdle EXCEPT !.a = a, !.b = b] : a \in AllUrls, b \in AllUrls}
  /\ inflight = NoRequests
  /\ page = ClosedPage
  /\ run = IdleRun
  /\ asked = NoHistory

Normalize ==
  /\ ~norm.done
  /\ norm' = [norm EXCEPT !.done = TRUE,
                          !.idA = NormalizedOf[norm.a].videoId,
                          !.canA = NormalizedOf[norm.a].canonicalUrl,
                          !.idB = NormalizedOf[norm.b].videoId,
                          !.canB = NormalizedOf[norm.b].canonicalUrl]
  /\ UNCHANGED <<env, session, files, github, last, inflight, page, run, asked>>

NextNorm == Normalize

SpecNorm == InitNorm /\ [][NextNorm]_vars


(***************************************************************************)
(* Overlapping addUrlToSheet requests                                      *)
(* Each await of the flow is a point where another request of the same     *)
(* session can run: a request in progress holds its own context (the       *)
(* locals of the async function) and goes through the stages one step at a *)
(* time, each step reading and writing the session and the sheet as they   *)
(* are at that moment.                                                     *)
(***************************************************************************)
StageNames ==
  <<"clients", "normalize", "duplicate", "fetch", "rewrite", "append">>

NextStage(pc) ==
  StageNames[(CHOOSE i \in 1..Len(StageNames) : StageNames[i] = pc) + 1]

ApplyStage(pc, ctx, ext) ==
  CASE pc = "clients" -> StageClients(ctx, ext)
    [] pc = "normalize" -> StageNormalize(ctx)
    [] pc = "duplicate" -> StageDuplicate(ctx, ext)
    [] pc = "fetch" -> StageFetch(ctx, ext)
    [] pc = "rewrite" -> StageRewrite(ctx, ext)
    [] pc = "append" -> StageAppend(ctx, ext)

\* the locals of a request: the session and the sheet are not among them
Locals(ctx) == [ctx EXCEPT !.session = EmptySession, !.files = <<>>]

\* the URLs submitted by the overlapping requests: one video in two shapes,
\* and another video
RaceUrls == {ShortLinkA, WatchA, WatchB}
RaceExts ==
  {e \in AddUrlExts :
     ~e.expired /\ e.fault = "none" /\ e.gen = "ok" /\ e.yt \in {"ok", "missing"}}

\* a request arrives
RaceBegin(r) ==
  /\ inflight[r].pc = "idle"
  /\ \E url \in RaceUrls, ext \in RaceExts :
       inflight' = [inflight EXCEPT ![r] =
                      [pc |-> "clients", ext |-> ext, seen |-> 0,
                       ctx |-> Locals(StartAddUrl(session, files, url))]]
  /\ UNCHANGED <<env, session, files, github, last, norm, page, run, asked>>

\* a request in progress runs up to its next await; seen is the number of
\* rows the sheet had when the request read column A
RaceStep(r) ==
  /\ inflight[r].pc # "idle"
  /\ \E c \in {ApplyStage(inflight[r].pc,
                          [inflight[r].ctx EXCEPT !.session = session,
                                                  !.files = files],
                          inflight[r].ext)} :
       /\ RowsOk(c.files)
       /\ session' = c.session
       /\ files' = c.files
       /\ IF c.done
          THEN /\ last' = c.last
               /\ inflight' = [inflight EXCEPT ![r] = IdleRequest]
          ELSE /\ last' = last
               /\ inflight' = [inflight EXCEPT ![r] =
                    [pc |-> NextStage(inflight[r].pc),
                     ext |-> inflight[r].ext,
                     seen |-> IF inflight[r].pc = "duplicate"
                              THEN Len(files[IndexOfDoc(files, session.sheet_id)].rows)
                              ELSE inflight[r].seen,
                     ctx |-> Locals(c)]]
  /\ UNCHANGED <<env, github, norm, page, run, asked>>

\* the session and Drive once Google is connected and createSheet has run
InitRace ==
  /\ env = EnvAll
  /\ \E g \in {GoogleCallbackRun(EmptySession, "code", "", "tokens+refresh")} :
     \E s \in {CreateSheetRun(g.session, <<>>, FALSE, TRUE, "none")} :
       /\ session = s.session
       /\ files = s.files
       /\ last = s.last
  /\ github = NoFork
  /\ norm = NormIdle
  /\ inflight = NoRequests
  /\ page = ClosedPage
  /\ run = IdleRun
  /\ asked = NoHistory

NextRace == \E r \in Slots : RaceBegin(r) \/ RaceStep(r)

SpecRace == InitRace /\ [][NextRace]_vars

(***************************************************************************)
(* forkRepo followed await by await: every step below is one await of the  *)
(* flow returning (the call answers or throws, the timer fires).           *)
(***************************************************************************)
RunFailed(calls) ==
  [Outcome("forkRepo") EXCEPT !.message = MSG_FORK_ERROR,
                              !.detail = ERR_UPSTREAM, !.calls = calls]

\* the flow is called: the session is loaded and the three guards are tried
ForkBegin ==
  /\ run.pc = "idle"
  /\ \E ext \in ForkExts :
       IF ForkPrecondition(session) # MSG_NONE
       THEN /\ last' = [Outcome("forkRepo") EXCEPT
                          !.message = ForkPrecondition(session)]
            /\ run' = [IdleRun EXCEPT !.pc = "ended", !.ext = ext,
                                      !.gh0 = github]
       ELSE /\ run' = [IdleRun EXCEPT !.pc = "user", !.ext = ext,
                                      !.gh0 = github]
            /\ UNCHANGED last
  /\ UNCHANGED <<env, session, files, github, norm, inflight, page, asked>>

\* await octokit.rest.users.getAuthenticated()
ForkUser ==
  /\ run.pc = "user"
  /\ \E calls \in {Append(run.calls, "users.getAuthenticated")} :
       IF run.ext.fault = "user"
       THEN /\ last' = RunFailed(calls)
            /\ run' = [run EXCEPT !.pc = "ended", !.calls = calls]
       ELSE /\ run' = [run EXCEPT !.pc = "fork", !.calls = calls]
            /\ UNCHANGED last
  /\ UNCHANGED <<env, session, files, github, norm, inflight, page, asked>>

\* await octokit.rest.repos.createFork(...); let forkExists = false; i = 0
ForkCreate ==
  /\ run.pc = "fork"
  /\ \E calls \in {Append(run.calls, "repos.createFork")} :
       IF run.ext.fault = "fork"
       THEN /\ last' = RunFailed(calls)
            /\ run' = [run EXCEPT !.pc = "ended", !.calls = calls]
            /\ UNCHANGED github
       ELSE /\ run' = [run EXCEPT !.pc = "poll", !.calls = calls, !.i = 0,
                                  !.forkExists = FALSE]
            /\ github' = [github EXCEPT !.forked = TRUE]
            /\ UNCHANGED last
  /\ UNCHANGED <<env, session, files, norm, inflight, page, asked>>

\* mutant: the loop is left only by a lookup that finds the fork
ForkLookup_unbounded ==
  /\ run.pc = "poll"
  /\ IF run.i + 1 >= run.ext.visibleAt
     THEN run' = [run EXCEPT !.pc = "confirm", !.forkExists = TRUE,
                             !.calls = Append(@, REPOS_GET_OK)]
     ELSE run' = [run EXCEPT !.pc = "wait",
                             !.calls = Append(@, REPOS_GET_FAIL)]
  /\ UNCHANGED <<env, session, files, github, last, norm, inflight, page, asked>>

\* the loop test i < 5, then await octokit.rest.repos.get(...): found sets
\* forkExists and breaks, a throw goes to the catch
ForkLookup ==
  /\ run.pc = "poll"
  /\ IF run.i >= MaxAttempts
     THEN run' = [run EXCEPT !.pc = "confirm"]
     ELSE IF run.i + 1 >= run.ext.visibleAt
     THEN run' = [run EXCEPT !.pc = "confirm", !.forkExists = TRUE,
                             !.calls = Append(@, REPOS_GET_OK)]
     ELSE run' = [run EXCEPT !.pc = "wait",
                             !.calls = Append(@, REPOS_GET_FAIL)]
  /\ UNCHANGED <<env, session, files, github, last, norm, inflight, page, asked>>

\* catch: await the two-second timer, then i++
ForkWait ==
  /\ run.pc = "wait"
  /\ run' = [run EXCEPT !.pc = "poll", !.i = @ + 1,
                        !.calls = Append(@, DELAY_2S)]
  /\ UNCHANGED <<env, session, files, github, last, norm, inflight, page, asked>>

\* if (!forkExists) return ...; otherwise await the one-second timer
ForkConfirm ==
  /\ run.pc = "confirm"
  /\ IF ~ForkConfirmed(run)
     THEN /\ last' = [Outcome("forkRepo") EXCEPT !.message = MSG_NO_FORK,
                                                 !.calls = run.calls]
          /\ run' = [run EXCEPT !.pc = "ended"]
     ELSE /\ run' = [run EXCEPT !.pc = "key", !.calls = Append(@, DELAY_1S)]
          /\ UNCHANGED last
  /\ UNCHANGED <<env, session, files, github, norm, inflight, page, asked>>

\* await octokit.rest.actions.getRepoPublicKey(...)
ForkKey ==
  /\ run.pc = "key"
  /\ \E calls \in {Append(run.calls, "actions.getRepoPublicKey")} :
       IF run.ext.fault = "key"
       THEN /\ last' = RunFailed(calls)
            /\ run' = [run EXCEPT !.pc = "ended", !.calls = calls]
       ELSE /\ run' = [run EXCEPT !.pc = "secret", !.calls = calls, !.i = 1]
            /\ UNCHANGED last
  /\ UNCHANGED <<env, session, files, github, norm, inflight, page, asked>>

\* one turn of the secrets loop: await createOrUpdateRepoSecret(name), and
\* after the last name the success outcome
ForkSecret ==
  /\ run.pc = "secret"
  /\ IF run.i > Len(SecretNames)
     THEN /\ last' = [Outcome("forkRepo") EXCEPT
                        !.success = TRUE, !.message = MSG_FORK_OK,
                        !.calls = run.calls]
          /\ run' = [run EXCEPT !.pc = "ended"]
          /\ UNCHANGED github
     ELSE \E calls \in {Append(run.calls, SecretNames[run.i])} :
            IF run.ext.fault = "secret" /\ run.ext.failAt = run.i
            THEN /\ last' = RunFailed(calls)
                 /\ run' = [run EXCEPT !.pc = "ended", !.calls = calls]
                 /\ UNCHANGED github
            ELSE /\ run' = [run EXCEPT !.i = @ + 1, !.calls = calls]
                 /\ github' = [github EXCEPT
                                 !.secrets = @ \cup {SecretNames[run.i]}]
                 /\ UNCHANGED last
  /\ UNCHANGED <<env, session, files, norm, inflight, page, asked>>

\* the outcome has gone back to the caller; the flow can be called again
ForkReturn ==
  /\ run.pc = "ended"
  /\ run' = IdleRun
  /\ UNCHANGED <<env, session, files, github, last, norm, inflight, page, asked>>

\* sessions a forkRepo call can find: nothing connected, or the three
\* earlier wizard steps done
ForkSessions ==
  { EmptySession,
    GithubCallbackRun(
      CreateSheetRun(
        GoogleCallbackRun(EmptySession, "code", "", "tokens+refresh").session,
        <<>>, FALSE, TRUE, "none").session,
      "code", "", "token").session }

InitFork ==
  /\ env = EnvAll
  /\ session \in ForkSessions
  /\ files = <<>>
  /\ github = NoFork
  /\ last = Outcome("none")
  /\ norm = NormIdle
  /\ inflight = NoRequests
  /\ page = ClosedPage
  /\ run = IdleRun
  /\ asked = NoHistory

NextFork ==
  \/ ForkBegin
  \/ ForkUser
  \/ ForkCreate
  \/ ForkLookup
  \/ ForkWait
  \/ ForkConfirm
  \/ ForkKey
  \/ ForkSecret
  \/ ForkReturn

\* every await of the flow returns: the GitHub client answers or throws, and
\* a timer fires
SpecFork == InitFork /\ [][NextFork]_vars /\ WF_vars(NextFork)

(***************************************************************************)
(* The authorization round trips of the two providers in one session, with *)
(* the history of the requests kept                                        *)
(***************************************************************************)
InitAuth ==
  /\ env \in EnvConfigs
  /\ session = EmptySession
  /\ files = <<>>
  /\ github = NoFork
  /\ last = Outcome("init")
  /\ norm = NormIdle
  /\ inflight = NoRequests
  /\ page = ClosedPage
  /\ run = IdleRun
  /\ asked = History

NextAuth ==
  \/ getGoogleAuthUrl
  \/ getGithubAuthUrl
  \/ GoogleCallbackGET
  \/ GithubCallbackGET

SpecAuth == InitAuth /\ [][NextAuth]_vars

(***************************************************************************)
(* The setup wizard of app/page.tsx in one browser: the page's state, its  *)
(* localStorage, and the handlers its step components call                 *)
(***************************************************************************)
STEP_COUNT == 4

\* handleStepComplete
HandleStepComplete(p) ==
  IF p.step < STEP_COUNT + 1
  THEN [p EXCEPT !.step = p.step + 1, !.stored = p.step + 1]
  ELSE p

\* the mount effect: the saved step is read back and the success indicators
\* of the query set the connected flags; query is the indicator the URL
\* carries ("" for none)
Mount(p, query) ==
  [open |-> TRUE,
   step |-> IF p.stored # 0 THEN p.stored ELSE 1,
   stored |-> p.stored,
   sheetStored |-> p.sheetStored,
   isGoogleConnected |-> (query = GOOGLE_AUTH_SUCCESS),
   isGithubConnected |-> (query = GITHUB_AUTH_SUCCESS)]

\* the browser leaves the page for the provider's site: localStorage stays
Leave(p) ==
  [p EXCEPT !.open = FALSE, !.isGoogleConnected = FALSE,
            !.isGithubConnected = FALSE]

\* an effect of the page has still to run after the last render
EffectPending ==
  /\ page.open
  /\ \/ page.isGoogleConnected /\ page.step = 1
     \/ page.isGithubConnected /\ page.step = 3

\* the page is loaded or reloaded; after a callback the browser may be
\* following its redirect, whose query carries the callback's indicator
OpenPage ==
  /\ \E follow \in BOOLEAN :
       \E query \in {IF follow /\ last.op \in {"googleCallback", "githubCallback"}
                     THEN last.param ELSE ""} :
          /\ page' = Mount(page, query)
          /\ last' = [Outcome("openPage") EXCEPT !.param = query]
  /\ UNCHANGED <<env, session, files, github, norm, inflight, run, asked>>

\* mutant: the Google flag advances the wizard whatever the step is
EffectGoogle_anyStep ==
  /\ page.open
  /\ page.isGoogleConnected
  /\ page.step < STEP_COUNT + 1
  /\ page' = HandleStepComplete(page)
  /\ last' = Outcome("effectGoogle")
  /\ UNCHANGED <<env, session, files, github, norm, inflight, run, asked>>

\* useEffect: if (isGoogleConnected && step === 1) handleStepComplete()
EffectGoogle ==
  /\ page.open
  /\ page.isGoogleConnected
  /\ page.step = 1
  /\ page' = HandleStepComplete(page)
  /\ last' = Outcome("effectGoogle")
  /\ UNCHANGED <<env, session, files, github, norm, inflight, run, asked>>

\* useEffect: if (isGithubConnected && step === 3) handleStepComplete()
EffectGithub ==
  /\ page.open
  /\ page.isGithubConnected
  /\ page.step = 3
  /\ page' = HandleStepComplete(page)
  /\ last' = Outcome("effectGithub")
  /\ UNCHANGED <<env, session, files, github, norm, inflight, run, asked>>

\* step 1, Connect with Google: the authorization URL is asked for with the
\* page's own URL as the return URL, and the browser goes to it
ClickConnectGoogle ==
  /\ page.open /\ ~EffectPending
  /\ page.step = 1
  /\ \E originalUrl \in ReturnUrls :
       \E r \in {GoogleAuthUrlRun(session, originalUrl)} :
          /\ session' = r.session
          /\ last' = r.last
          /\ page' = IF r.last.success THEN Leave(page) ELSE page
  /\ UNCHANGED <<env, files, github, norm, inflight, run, asked>>

\* step 3, Connect with GitHub
ClickConnectGithub ==
  /\ page.open /\ ~EffectPending
  /\ page.step = 3
  /\ \E originalUrl \in ReturnUrls :
       \E r \in {GithubAuthUrlRun(session, originalUrl)} :
          /\ session' = r.session
          /\ last' = r.last
          /\ page' = IF r.last.success THEN Leave(page) ELSE page
  /\ UNCHANGED <<env, files, github, norm, inflight, run, asked>>

\* step 2, Create Sheet: handleCreate of CreateSheetStep
ClickCreateSheet ==
  /\ page.open /\ ~EffectPending
  /\ page.step = 2
  /\ \E expired \in BOOLEAN, refreshOk \in BOOLEAN,
        fault \in {"none", "list", "write"} :
       \E r \in {CreateSheetRun(session, files, expired, refreshOk, fault)} :
          /\ Len(r.files) <= MaxFiles
          /\ session' = r.session
          /\ files' = r.files
          /\ last' = r.last
          /\ page' = IF r.last.success /\ r.last.sheetId # ""
                     THEN HandleStepComplete(
                            [page EXCEPT !.sheetStored = r.last.sheetId])
                     ELSE page
  /\ UNCHANGED <<env, github, norm, inflight, run, asked>>

\* step 4, Fork & Add Secrets: handleFork of ForkRepoStep
ClickFork ==
  /\ page.open /\ ~EffectPending
  /\ page.step = 4
  /\ \E ext \in ForkExts :
       \E r \in {ForkRepoRun(session, github, ext)} :
          /\ github' = r.github
          /\ last' = r.last
          /\ page' = IF r.last.success THEN HandleStepComplete(page) ELSE page
  /\ UNCHANGED <<env, session, files, norm, inflight, run, asked>>

\* the dashboard, shown after the four steps: onSubmit calls addUrlToSheet
SubmitUrl ==
  /\ page.open /\ ~EffectPending
  /\ page.step > STEP_COUNT
  /\ addUrlToSheetBrief

\* Start Over, shown when step > STEP_COUNT
resetSetup ==
  /\ page.open /\ ~EffectPending
  /\ page.step > STEP_COUNT
  /\ page' = [page EXCEPT !.step = 1, !.stored = 0, !.sheetStored = "",
                          !.isGoogleConnected = FALSE,
                          !.isGithubConnected = FALSE]
  /\ last' = Outcome("resetSetup")
  /\ UNCHANGED <<env, session, files, github, norm, inflight, run, asked>>

InitWizard ==
  /\ env = EnvAll
  /\ session = EmptySession
  /\ files = <<>>
  /\ github = NoFork
  /\ last = Outcome("init")
  /\ norm = NormIdle
  /\ inflight = NoRequests
  /\ page = ClosedPage
  /\ run = IdleRun
  /\ asked = NoHistory

\* the page and its step components, and the callbacks the providers send
\* the browser to
NextWizard ==
  \/ OpenPage
  \/ EffectGoogle
  \/ EffectGithub
  \/ ClickConnectGoogle
  \/ ClickConnectGithub
  \/ GoogleCallbackGET
  \/ GithubCallbackGET
  \/ ClickCreateSheet
  \/ ClickFork
  \/ SubmitUrl
  \/ resetSetup

SpecWizard == InitWizard /\ [][NextWizard]_vars

(***************************************************************************)
(* Properties                                                              *)
(***************************************************************************)
Has(seq, x) == \E i \in 1..Len(seq) : seq[i] = x
Count(seq, x) == Cardinality({i \in 1..Len(seq) : seq[i] = x})
FirstIndex(seq, x) == Min({i \in 1..Len(seq) : seq[i] = x})
LastOf(seq) == seq[Len(seq)]

\* the Url cells of the data rows of a document
UrlsOf(doc) == [i \in 1..Len(doc.rows) |-> doc.rows[i][1]]

\* the document the session points at
SheetOf(sess, fs) == fs[IndexOfDoc(fs, sess.sheet_id)]

\* the run read the Url column and the read answered
ReadAnswered(l) ==
  /\ Has(l.calls, "sheets.values.get")
  /\ ~(l.message = MSG_ADD_ERROR /\ LastOf(l.calls) = "sheets.values.get")

UniqueUrls ==
  \A k \in 1..Len(files) :
    \A i, j \in 1..Len(files[k].rows) :
      files[k].rows[i][1] = files[k].rows[j][1] => i = j

\* one addUrlToSheet step, seen from the sheet: a canonical URL already in the
\* Url column is refused and nothing is appended; one not yet there is never
\* refused as a duplicate, and the call succeeds exactly when it has appended
\* one row holding that URL
DeduplicatedStep ==
  (last'.op = "addUrlToSheet" /\ ReadAnswered(last')) =>
    LET before == SheetOf(session', files)
        after == SheetOf(session', files')
    IN IF Has(UrlsOf(before), last'.canonicalUrl)
       THEN /\ last'.message = MSG_DUPLICATE
            /\ ~last'.success
            /\ files' = files
       ELSE /\ last'.message # MSG_DUPLICATE
            /\ IF last'.success
               THEN /\ Len(after.rows) = Len(before.rows) + 1
                    /\ SubSeq(after.rows, 1, Len(before.rows)) = before.rows
                    /\ LastOf(after.rows)[1] = last'.canonicalUrl
               ELSE files' = files

\* C1: over any sequence of addUrlToSheet calls made one after another, no
\* canonical URL is in more than one row of a tracking sheet: a submission of
\* a canonical URL not yet in the sheet appends one row when it succeeds, and
\* every submission of a canonical URL already there returns the duplicate
\* failure and appends nothing.
C1_NoCanonicalUrlTwice == []UniqueUrls /\ [][DeduplicatedStep]_vars

\* C1 witness: a duplicate was refused while the sheet holds that URL once,
\* beside a row for another canonical URL
C1_Witness ==
  /\ last.op = "addUrlToSheet"
  /\ last.message = MSG_DUPLICATE
  /\ session.sheet_id # ""
  /\ Count(UrlsOf(SheetOf(session, files)), last.canonicalUrl) = 1
  /\ Len(SheetOf(session, files).rows) = 2

CALL_READ == "sheets.values.get"
CALL_FETCH == "youtube.videos.list"
CALL_REWRITE == "optimizeVideoDetailsPrompt"
CALL_APPEND == "sheets.values.append"

ReadBeforeFetchAndRewrite ==
  last.op = "addUrlToSheet" =>
    \A c \in {CALL_FETCH, CALL_REWRITE} :
      Has(last.calls, c) =>
        /\ Has(last.calls, CALL_READ)
        /\ FirstIndex(last.calls, CALL_READ) < FirstIndex(last.calls, c)

NoFetchForDuplicateStep ==
  (/\ last'.op = "addUrlToSheet"
   /\ ReadAnswered(last')
   /\ Has(UrlsOf(SheetOf(session', files)), last'.canonicalUrl)) =>
     /\ ~Has(last'.calls, CALL_FETCH)
     /\ ~Has(last'.calls, CALL_REWRITE)

\* C3: in every addUrlToSheet run the read of the Url column comes before the
\* metadata fetch and before the generative call, and when the canonical URL
\* is already in the column neither of the two calls is made.
C3_DuplicateCheckFirst ==
  []ReadBeforeFetchAndRewrite /\ [][NoFetchForDuplicateStep]_vars

\* C3 witness: a short link of a video already in the sheet was refused after
\* the column read alone
C3_Witness ==
  /\ last.op = "addUrlToSheet"
  /\ last.url = ShortLinkA
  /\ last.message = MSG_DUPLICATE
  /\ LastOf(last.calls) = CALL_READ
  /\ ~Has(last.calls, CALL_FETCH)

\* the append call was made and did not throw
AppendAnswered(l) == Has(l.calls, CALL_APPEND) /\ l.message # MSG_ADD_ERROR

\* C4: the rewrite is attempted at most once per run, and when it throws or
\* returns no output the run goes on to append the row with the title and
\* description of the metadata fetch and returns success (the only failure
\* left is the append call itself throwing).
C4_RewriteFailureFallsBack ==
  last.op = "addUrlToSheet" =>
    /\ Count(last.calls, CALL_REWRITE) <= 1
    /\ (last.gen \in {"null", "throw"} =>
          /\ Count(last.calls, CALL_REWRITE) = 1
          /\ Has(last.calls, CALL_APPEND)
          /\ IF AppendAnswered(last)
             THEN /\ last.success
                  /\ last.row[2] = ORIGINAL_TITLE
                  /\ last.row[3] = ORIGINAL_DESCRIPTION
                  /\ LastOf(SheetOf(session, files).rows) = last.row
             ELSE ~last.success /\ LastOf(last.calls) = CALL_APPEND)

\* C4 witness: the prompt threw and the row was appended with the originals
C4_Witness ==
  /\ last.op = "addUrlToSheet"
  /\ last.gen = "throw"
  /\ last.success
  /\ last.row[2] = ORIGINAL_TITLE
  /\ last.row[3] = ORIGINAL_DESCRIPTION

\* a successful createSheet step: a document is created only when no
\* untrashed one is listed, otherwise the first one listed is used
FindOrCreateStep ==
  (last'.op = "createSheet" /\ last'.success) =>
    IF Len(ListSheets(files)) > 0
    THEN /\ Len(files') = Len(files)
         /\ last'.sheetId = ListSheets(files)[1].id
    ELSE /\ Len(files') = Len(files) + 1
         /\ last'.sheetId = files'[Len(files')].id
         /\ \A i \in 1..Len(files) : files[i].id # last'.sheetId

\* two successful createSheet calls in a row
SecondCreateStep ==
  (/\ last.op = "createSheet" /\ last.success
   /\ last'.op = "createSheet" /\ last'.success) =>
     /\ last'.sheetId = last.sheetId
     /\ Len(files') = Len(files)

\* C5: two successful createSheet calls in sequence return the same document
\* identifier and the second creates nothing; a document is created only when
\* the search lists no untrashed document, otherwise the first match is used.
C5_FindOrCreateIdempotent ==
  [][FindOrCreateStep /\ SecondCreateStep]_vars

\* C5 witness: in a Drive that was empty, createSheet found the document an
\* earlier createSheet had created
C5_Witness ==
  /\ last.op = "createSheet"
  /\ last.success
  /\ Len(files) = 1
  /\ Has(last.calls, "sheets.values.update")
  /\ last.sheetId = files[1].id

NoIdentifier(url) == NormalizedOf[url].videoId = NULL_ID

NoIdNoCalls ==
  (last.op = "addUrlToSheet" /\ NoIdentifier(last.url)) =>
    /\ ~last.success
    /\ last.row = <<>>
    /\ \A c \in {CALL_READ, CALL_FETCH, CALL_REWRITE, CALL_APPEND} :
         ~Has(last.calls, c)
    /\ last.message \in {MSG_ADD_ERROR, MSG_NO_SHEET, MSG_INVALID_URL}
    /\ (session.google_tokens.present /\ session.sheet_id # "" =>
          last.message = MSG_INVALID_URL)

NoIdNoWriteStep ==
  (last'.op = "addUrlToSheet" /\ NoIdentifier(last'.url)) => files' = files

\* C6: a submitted URL without an extractable identifier makes addUrlToSheet
\* fail with no sheet read, no append, no metadata fetch and no generative
\* call, leaving every sheet as it was; the failure is the invalid-input one
\* whenever the call got past its Google-client and sheet-configured guards.
C6_NoIdentifierNoCalls == []NoIdNoCalls /\ [][NoIdNoWriteStep]_vars

\* C6 witness: https://example.com/video was refused as invalid input
C6_Witness ==
  /\ last.op = "addUrlToSheet"
  /\ last.url = NoIdUrl
  /\ last.message = MSG_INVALID_URL
  /\ session.sheet_id # ""

\* C7 as stated: whenever sheet_id is absent, forkRepo fails with the message
\* about the missing sheet identifier and makes no network call.
C7_AlwaysNamesSheetId ==
  (last.op = "forkRepo" /\ session.sheet_id = "") =>
    /\ ~last.success
    /\ last.message = MSG_NO_SHEET_ID
    /\ last.calls = <<>>

\* C7 amended: whenever sheet_id is absent, forkRepo fails without any
\* network call, and its message names the first missing prerequisite in the
\* order GitHub token, Google refresh token, sheet identifier: the sheet
\* identifier is named exactly when the other two are present.
C7_NoSheetIdFailsFast ==
  (last.op = "forkRepo" /\ session.sheet_id = "") =>
    /\ ~last.success
    /\ ~last.threw
    /\ last.calls = <<>>
    /\ github = NoFork
    /\ last.message =
         (IF session.github_token = "" THEN MSG_NO_GITHUB
          ELSE IF ~session.google_tokens.present
                  \/ ~session.google_tokens.refresh_token THEN MSG_NO_GOOGLE
          ELSE MSG_NO_SHEET_ID)

\* C7 witness: both providers are connected, no sheet yet, forkRepo refused
C7_Witness ==
  /\ last.op = "forkRepo"
  /\ session.sheet_id = ""
  /\ session.github_token # ""
  /\ session.google_tokens.refresh_token
  /\ last.message = MSG_NO_SHEET_ID

AllLookupsFailed(l) ==
  l.op = "forkRepo" /\ Count(l.calls, REPOS_GET_FAIL) = MaxAttempts

CouldNotConfirm ==
  AllLookupsFailed(last) =>
    /\ ~last.success
    /\ ~last.threw
    /\ last.message = MSG_NO_FORK
    /\ ~Has(last.calls, REPOS_GET_OK)
    /\ ~Has(last.calls, "actions.getRepoPublicKey")
    /\ \A i \in 1..Len(SecretNames) : ~Has(last.calls, SecretNames[i])

NoSecretWrittenStep ==
  AllLookupsFailed(last') => github'.secrets = github.secrets

\* C8: when all 5 fork-visibility lookups fail, forkRepo returns (does not
\* throw) success = false with the "Could not confirm repository fork"
\* message, and in that run the public key is not fetched and no secret is
\* written.
C8_PollExhaustedFailsSoftly ==
  []CouldNotConfirm /\ [][NoSecretWrittenStep]_vars

\* C8 witness: five lookups failed and the run ended with the message
C8_Witness ==
  /\ AllLookupsFailed(last)
  /\ last.message = MSG_NO_FORK
  /\ github.forked

\* https://youtu.be/...
IsShortLink(url) == LitAt(url, 1, U_youtu_be)

\* C9 as stated: for every youtu.be short link the canonical form is the
\* watch URL of the identifier and the appended row is
\* [canonicalUrl, title, description, currentDate, "FALSE", identifier].
C9_RowCarriesVideoId ==
  (last.op = "addUrlToSheet" /\ last.success /\ IsShortLink(last.url)) =>
    /\ last.canonicalUrl = WATCH_PREFIX \o last.videoId
    /\ Len(last.videoId) = IdLen
    /\ last.row = <<last.canonicalUrl, last.row[2], last.row[3], TODAY,
                    "FALSE", last.videoId>>

\* C9 amended: for https://youtu.be/dQw4w9WgXcQ, and any youtu.be short link
\* that does not contain "/shorts/", the canonical form is
\* https://www.youtube.com/watch?v=<id> and the appended row is
\* [canonicalUrl, title, description, currentDate, "FALSE", ""]: isProcessed
\* is the literal "FALSE", the VideoId cell is blank, and the 11-character
\* identifier is carried by the Url cell alone.
C9_ShortLinkRow ==
  (/\ last.op = "addUrlToSheet" /\ last.success
   /\ IsShortLink(last.url) /\ ~IsShort(last.url)) =>
    /\ last.videoId = SubSeq(last.url, Len(U_youtu_be) + 1, Len(U_youtu_be) + IdLen)
    /\ last.canonicalUrl = WATCH_PREFIX \o last.videoId
    /\ (last.url = ShortLinkA => last.canonicalUrl = WatchA)
    /\ last.row[2] \in {ORIGINAL_TITLE, OPTIMIZED_TITLE}
    /\ last.row[3] \in {ORIGINAL_DESCRIPTION, OPTIMIZED_DESCRIPTION}
    /\ last.row = <<last.canonicalUrl, last.row[2], last.row[3], TODAY,
                    "FALSE", <<>> >>
    /\ LastOf(SheetOf(session, files).rows) = last.row

\* C9 witness: https://youtu.be/dQw4w9WgXcQ was added
C9_Witness ==
  /\ last.op = "addUrlToSheet"
  /\ last.success
  /\ last.url = ShortLinkA
  /\ last.row[1] = WatchA
  /\ last.row[5] = "FALSE"

\* C10: after either callback handler has returned, whatever path it took,
\* the saved session holds no redirectUrl.
C10_RedirectCleared ==
  last.op \in {"googleCallback", "githubCallback"} => session.redirectUrl = ""

\* C10 witness: a callback that found a stored return URL has cleared it on
\* the path where the server lacks the provider's credentials
C10_Witness ==
  /\ last.op = "githubCallback"
  /\ last.detail = ERR_GITHUB_NOT_CONFIGURED
  /\ last.redirect \in ReturnUrls
  /\ session.redirectUrl = ""

(***************************************************************************)
(* The callbacks' redirects                                                *)
(***************************************************************************)
\* what a callback step stores: the step's outcome says tokens were stored
\* exactly when the exchange was made and the saved session holds them
GoogleStored ==
  /\ last'.success
  /\ Has(last'.calls, "oauth2.getToken")
  /\ session'.google_tokens.present
  /\ session'.google_tokens.access = "issued"

GithubStored ==
  /\ last'.success
  /\ Has(last'.calls, "github.access_token")
  /\ session'.github_token # ""

\* a callback step redirects to the return URL the session held when the
\* request arrived ('/' when none), with one indicator of its provider
CallbackRedirectStep ==
  /\ last'.op \in {"googleCallback", "githubCallback"} =>
       last'.redirect = IF session.redirectUrl = "" THEN "/"
                        ELSE session.redirectUrl
  /\ last'.op = "googleCallback" =>
       /\ last'.param \in {GOOGLE_AUTH_SUCCESS, GOOGLE_AUTH_ERROR}
       /\ last'.param = GOOGLE_AUTH_SUCCESS => GoogleStored
       /\ last'.param = GOOGLE_AUTH_ERROR =>
            /\ ~last'.success /\ last'.detail # MSG_NONE
            /\ session'.google_tokens = session.google_tokens
  /\ last'.op = "githubCallback" =>
       /\ last'.param \in {GITHUB_AUTH_SUCCESS, GITHUB_AUTH_ERROR}
       /\ last'.param = GITHUB_AUTH_SUCCESS => GithubStored
       /\ last'.param = GITHUB_AUTH_ERROR =>
            /\ ~last'.success /\ last'.detail # MSG_NONE
            /\ session'.github_token = session.github_token

\* C11: every path through either callback handler ends in a redirect to the
\* session's stored return URL ('/' when none is stored) carrying exactly
\* one of <provider>_auth_success=true and <provider>_auth_error=<message>,
\* and the success indicator is emitted only on the path that stored tokens.
C11_CallbackRedirects == [][CallbackRedirectStep]_vars

\* C11 witness: a Google callback stored tokens and sent the browser back to
\* the stored return URL with the success indicator
C11_Witness ==
  /\ last.op = "googleCallback"
  /\ last.param = GOOGLE_AUTH_SUCCESS
  /\ last.redirect \in ReturnUrls
  /\ session.google_tokens.present

\* C12: a callback request that carries an error parameter, or no code, has
\* a failure outcome carrying the provider's error string and stores no
\* token, also when code and error come in the same request.
C12_ErrorOrNoCodeFails ==
  (/\ last.op \in {"googleCallback", "githubCallback"}
   /\ (last.error # "" \/ last.code = "")) =>
    /\ ~last.success
    /\ last.param \in {GOOGLE_AUTH_ERROR, GITHUB_AUTH_ERROR}
    /\ last.detail = (IF last.error = "" THEN UNKNOWN_ERROR ELSE last.error)
    /\ last.calls = <<>>

(***************************************************************************)
(* Reauthorization                                                         *)
(***************************************************************************)
CALL_REFRESH == "oauth2.refreshAccessToken"
GoogleFlows == {"createSheet", "addUrlToSheet", "forkRepo"}

\* a run whose refresh was refused: the tokens are gone from the saved
\* session and the run reports the refresh error
RefreshFailureStep ==
  last'.detail = ERR_REFRESH =>
    /\ LastOf(last'.calls) = CALL_REFRESH
    /\ ~session'.google_tokens.present
    /\ ~last'.success
    /\ last'.message # MSG_NONE

\* with no tokens in the session the three flows fail with no call at all,
\* and only a successful Google callback brings tokens back
DeadTokenStep ==
  ~session.google_tokens.present =>
    /\ last'.op \in GoogleFlows =>
         /\ ~last'.success
         /\ last'.calls = <<>>
         /\ last'.message # MSG_NONE
    /\ session'.google_tokens.present =>
         (last'.op = "googleCallback" /\ last'.success)

\* C13: when the token refresh in getGoogleApiClients fails, google_tokens
\* is cleared from the saved session and the error is reported; from then on
\* createSheet, addUrlToSheet and forkRepo fail without trying the token
\* again, until a Google callback succeeds.
C13_DeadTokenNotRetried ==
  [][RefreshFailureStep /\ DeadTokenStep]_vars

\* C13 witness: a createSheet run just had its refresh refused and the session
\* has lost the tokens it was given
C13_Witness ==
  /\ last.op = "createSheet"
  /\ last.detail = ERR_REFRESH
  /\ Has(last.calls, CALL_REFRESH)
  /\ ~session.google_tokens.present

(***************************************************************************)
(* Errors at the flows' boundary                                           *)
(***************************************************************************)
\* the details a flow reports when an external call failed
ExternalFailures == {ERR_UPSTREAM, ERR_REFRESH}

\* C14: createSheet, addUrlToSheet and forkRepo never let an exception reach
\* the caller: whatever external call fails (token refresh, Drive, Sheets,
\* YouTube, GitHub user lookup, fork, public-key fetch, secret write), the
\* flow returns success = false with a non-empty message.
C14_NoExceptionEscapes ==
  last.op \in GoogleFlows =>
    /\ ~last.threw
    /\ last.detail \in ExternalFailures => ~last.success
    /\ ~last.success => last.message # MSG_NONE

\* C14 witness: a secret write was refused part-way and forkRepo returned the
\* failure message
C14_Witness ==
  /\ last.op = "forkRepo"
  /\ last.detail = ERR_UPSTREAM
  /\ last.message = MSG_FORK_ERROR
  /\ ~last.threw
  /\ github.secrets # {}

(***************************************************************************)
(* forkRepo's prerequisites                                                *)
(***************************************************************************)
\* the prerequisites, in the order the flow tests them
Prerequisites == <<"github_token", "google_tokens.refresh_token", "sheet_id">>

\* the prerequisites a session lacks
Missing(sess) ==
  (IF sess.github_token = "" THEN {"github_token"} ELSE {})
    \cup (IF ~sess.google_tokens.present \/ ~sess.google_tokens.refresh_token
          THEN {"google_tokens.refresh_token"} ELSE {})
    \cup (IF sess.sheet_id = "" THEN {"sheet_id"} ELSE {})

\* the prerequisites a message of forkRepo names
NamedBy(message) ==
  IF message = MSG_NO_GITHUB THEN {"github_token"}
  ELSE IF message = MSG_NO_GOOGLE THEN {"google_tokens.refresh_token"}
  ELSE IF message = MSG_NO_SHEET_ID THEN {"sheet_id"}
  ELSE {}

FirstMissing(sess) ==
  Prerequisites[Min({i \in 1..Len(Prerequisites) :
                       Prerequisites[i] \in Missing(sess)})]

\* forkRepo leaves the session alone, so the session of the state is the one
\* the run saw
ForkFailedFast ==
  /\ ~last.success
  /\ ~last.threw
  /\ last.calls = <<>>

\* C15 as stated: for every combination of absent prerequisites forkRepo
\* fails before any network call and its message names exactly the absent
\* ones.
C15_NamesEveryMissing ==
  (last.op = "forkRepo" /\ Missing(session) # {}) =>
    /\ ForkFailedFast
    /\ NamedBy(last.message) = Missing(session)

\* C15 amended: for every combination of absent prerequisites forkRepo fails
\* before any network call and its message names exactly one prerequisite,
\* the first absent one in the order github_token,
\* google_tokens.refresh_token, sheet_id; a present prerequisite is never
\* named, and an absent one is left out exactly when an earlier one is
\* absent too.
C15_NamesFirstMissing ==
  (last.op = "forkRepo" /\ Missing(session) # {}) =>
    /\ ForkFailedFast
    /\ NamedBy(last.message) = {FirstMissing(session)}
    /\ NamedBy(last.message) \subseteq Missing(session)

\* C15 witness: GitHub is connected, Google and the sheet are not, and
\* forkRepo named Google alone
C15_Witness ==
  /\ last.op = "forkRepo"
  /\ Missing(session) = {"google_tokens.refresh_token", "sheet_id"}
  /\ last.message = MSG_NO_GOOGLE

(***************************************************************************)
(* forkRepo's secrets                                                      *)
(***************************************************************************)
IsSecretCall(call) == \E i \in 1..Len(SecretNames) : SecretNames[i] = call

\* the createOrUpdateRepoSecret calls of a run, in the order made
SecretCalls(l) == SelectSeq(l.calls, IsSecretCall)

\* the order the claim gives
ClaimedSecretOrder ==
  <<"YT_REFRESH_TOKEN", "GOOGLE_CLIENT_ID", "GOOGLE_CLIENT_SECRET", "SHEET_ID">>

SecretsInOrderStep ==
  last'.op = "forkRepo" =>
    LET sc == SecretCalls(last')
        n == Len(sc)
    IN /\ sc = SubSeq(ClaimedSecretOrder, 1, n)
       /\ last'.success =>
            /\ n = Len(SecretNames)
            /\ github'.secrets = github.secrets \cup {sc[k] : k \in 1..n}
       /\ (~last'.success /\ n > 0) =>
            /\ LastOf(last'.calls) = sc[n]
            /\ last'.message = MSG_FORK_ERROR
            /\ ~last'.threw
            /\ github'.secrets = github.secrets \cup {sc[k] : k \in 1..(n - 1)}

C17_HeaderExactlyRequired ==
  session.sheet_id # "" =>
    /\ Len(SheetOf(session, files).header) = 6
    /\ SheetOf(session, files).header = REQUIRED_COLUMNS

(***************************************************************************)
(* Secrets only in a confirmed fork                                        *)
(***************************************************************************)
CALL_PUBLIC_KEY == "actions.getRepoPublicKey"

\* in the run's call log every public-key fetch and every secret write comes
\* after a repository lookup that found the fork
ConfirmedBeforeSecrets ==
  last.op = "forkRepo" =>
    \A i \in 1..Len(last.calls) :
      (last.calls[i] = CALL_PUBLIC_KEY \/ IsSecretCall(last.calls[i])) =>
        \E j \in 1..(i - 1) : last.calls[j] = REPOS_GET_OK

SecretsNeedConfirmationStep ==
  github'.secrets # github.secrets =>
    (last'.op = "forkRepo" /\ Has(last'.calls, REPOS_GET_OK))

\* C18: within a forkRepo run no secret is written, and the repository's
\* public key is not fetched, unless a lookup of the fork under the
\* authenticated owner has succeeded earlier in the same run.
C18_NoSecretBeforeForkVisible ==
  []ConfirmedBeforeSecrets /\ [][SecretsNeedConfirmationStep]_vars

\* C18 witness: the fork was found at the third lookup and all secrets were
\* written after it
C18_Witness ==
  /\ last.op = "forkRepo"
  /\ last.success
  /\ Count(last.calls, REPOS_GET_FAIL) = 2
  /\ Count(last.calls, REPOS_GET_OK) = 1
  /\ Cardinality(github.secrets) = Len(SecretNames)

(***************************************************************************)
(* Stored tokens stay                                                      *)
(***************************************************************************)
TokensKeptStep ==
  /\ (session.google_tokens.present /\ ~session'.google_tokens.present) =>
       /\ last'.op \in {"createSheet", "addUrlToSheet"}
       /\ LastOf(last'.calls) = CALL_REFRESH
       /\ last'.detail = ERR_REFRESH
  /\ session.github_token # "" => session'.github_token # ""

\* C19: once google_tokens, or github_token, is stored in the session it
\* becomes absent again only through a failed token refresh: no callback
\* outcome, no failure of createSheet, addUrlToSheet or forkRepo and no
\* getGoogleAuthUrl or getGithubAuthUrl call removes a stored token.
C19_TokensLostOnlyByRefreshFailure == [][TokensKeptStep]_vars

\* C19 witness: with both providers connected a Google callback failed at the
\* exchange and both tokens are still in the session
C19_Witness ==
  /\ last.op = "googleCallback"
  /\ last.detail = ERR_EXCHANGE
  /\ session.google_tokens.present
  /\ session.github_token # ""

(***************************************************************************)
(* Authorization requests and callbacks                                    *)
(***************************************************************************)
\* an authorization request is pending in a session from the moment
\* getGoogleAuthUrl or getGithubAuthUrl stored the return URL until a
\* callback cleared it
AuthorizationPending(sess) == sess.redirectUrl # ""

\* C20: a provider becomes Authorized only from AuthorizationRequested: a
\* callback stores tokens only if the session issued an authorization URL
\* before and that request is still pending; a callback with a code that
\* arrives in a session with no pending request stores nothing.
C20_AuthorizedOnlyWhenRequested ==
  [][ (last'.op \in {"googleCallback", "githubCallback"} /\ last'.success)
        => AuthorizationPending(session) ]_vars

(***************************************************************************)
(* Where tokens come from                                                  *)
(***************************************************************************)
\* the session's google_tokens takes a new value only in a Google callback
\* whose exchange Google answered with tokens, or in a flow that refreshed
\* tokens the session already held
GoogleTokensFromExchangeStep ==
  (session'.google_tokens # session.google_tokens
   /\ session'.google_tokens.present) =>
    \/ /\ last'.op = "googleCallback"
       /\ last'.code # ""
       /\ last'.calls = <<"oauth2.getToken">>
       /\ last'.answer \in {"tokens+refresh", "tokens"}
       /\ session'.google_tokens.access = "issued"
    \/ /\ last'.op \in {"createSheet", "addUrlToSheet"}
       /\ session.google_tokens.present
       /\ Has(last'.calls, CALL_REFRESH)
       /\ session'.google_tokens.access = "refreshed"

\* github_token takes a value only in a GitHub callback whose exchange
\* answered with an access token and no error field
GithubTokenFromExchangeStep ==
  (session'.github_token # session.github_token
   /\ session'.github_token # "") =>
    /\ last'.op = "githubCallback"
    /\ last'.code # ""
    /\ last'.calls = <<"github.access_token">>
    /\ last'.answer = "token"

\* a session starts with no token
NoTokenAtStart ==
  last.op = "init" =>
    (~session.google_tokens.present /\ session.github_token = "")

\* C21: in every reachable session state google_tokens is present only if an
\* earlier Google code exchange, or a token refresh that followed one,
\* succeeded, and github_token is present only if an earlier GitHub exchange
\* returned an access token without an error field.
C21_TokensOnlyFromExchange ==
  /\ []NoTokenAtStart
  /\ [][GoogleTokensFromExchangeStep /\ GithubTokenFromExchangeStep]_vars

\* C21 witness: GitHub answered with an access token and an error field at
\* once, and the session holds no github_token
C21_Witness ==
  /\ last.op = "githubCallback"
  /\ last.answer = "token+error"
  /\ session.github_token = ""

(***************************************************************************)
(* The authorization-URL flows                                             *)
(***************************************************************************)
\* the settings each flow asks for before it does anything else
GoogleSettingsPresent ==
  env.NEXT_PUBLIC_BASE_URL /\ env.GOOGLE_CLIENT_ID /\ env.GOOGLE_CLIENT_SECRET
GithubSettingsPresent ==
  env.GITHUB_CLIENT_ID /\ env.NEXT_PUBLIC_BASE_URL

AuthUrlStep ==
  /\ last'.op = "getGoogleAuthUrl" => (last'.threw <=> ~GoogleSettingsPresent)
  /\ last'.op = "getGithubAuthUrl" => (last'.threw <=> ~GithubSettingsPresent)
  /\ last'.op \in {"getGoogleAuthUrl", "getGithubAuthUrl"} =>
       /\ last'.success <=> ~last'.threw
       /\ last'.calls = <<>>
       /\ last'.success =>
            session' = [session EXCEPT !.redirectUrl = last'.url]
       /\ last'.threw => session' = session

\* C22: when getGoogleAuthUrl or getGithubAuthUrl returns a URL, the saved
\* session's redirectUrl is the originalUrl passed in; when it fails with a
\* configuration error (missing base URL or client credentials) it throws
\* before any external call and the saved session is unchanged.
C22_AuthUrlStoresReturnUrl == [][AuthUrlStep]_vars

\* C22 witness: a GitHub request stored its return URL, then getGoogleAuthUrl
\* threw for want of the client secret and the session kept that URL
C22_Witness ==
  /\ last.op = "getGoogleAuthUrl"
  /\ last.threw
  /\ ~env.GOOGLE_CLIENT_SECRET
  /\ session.redirectUrl \in ReturnUrls

(***************************************************************************)
(* Refreshed credentials                                                   *)
(***************************************************************************)
\* a run that refreshed the token and went on: its only refresh call was
\* followed by other calls, or the run did not report the refresh error
RefreshedStep ==
  (/\ last'.op \in {"createSheet", "addUrlToSheet"}
   /\ Has(last'.calls, CALL_REFRESH)
   /\ last'.detail # ERR_REFRESH) =>
    /\ session'.google_tokens.present
    /\ session'.google_tokens.access = "refreshed"
    /\ session'.google_tokens.refresh_token

AppendedUnseenStep ==
  \A r \in Slots :
    (/\ inflight[r].pc = "append"
     /\ inflight'[r].pc = "idle"
     /\ files' # files) =>
      LET old == SheetOf(session, files).rows
          new == LastOf(SheetOf(session', files').rows)
      IN \A i \in 1..Len(old) :
           old[i][1] = new[1] => i > inflight[r].seen

\* C24: two addUrlToSheet requests for the same canonical URL that overlap
\* can both pass the duplicate check before either appends, so a sheet with
\* two rows holding the same canonical URL is reachable; a request never
\* appends a URL that was in the column when it read it, so the Url column
\* stays unique when requests do not overlap.
C24_DuplicatesOnlyByOverlap == [][AppendedUnseenStep]_vars

\* C24 witness: the sheet holds the same canonical URL in two rows
C24_Witness ==
  /\ session.sheet_id # ""
  /\ \E i, j \in 1..Len(SheetOf(session, files).rows) :
       /\ i < j
       /\ SheetOf(session, files).rows[i][1] = WatchA
       /\ SheetOf(session, files).rows[j][1] = WatchA

(***************************************************************************)
(* The fork-visibility poll                                                *)
(***************************************************************************)
IsLookup(call) == call \in {REPOS_GET_OK, REPOS_GET_FAIL}

\* what a call log shows of the poll while the run is still going
PollSoFar(calls) ==
  /\ Cardinality({i \in 1..Len(calls) : IsLookup(calls[i])}) <= 5
  /\ \A i \in 1..Len(calls) :
       /\ calls[i] = REPOS_GET_OK =>
            \A j \in (i + 1)..Len(calls) :
              ~IsLookup(calls[j]) /\ calls[j] # DELAY_2S
       /\ calls[i] = DELAY_2S => (i > 1 /\ calls[i - 1] = REPOS_GET_FAIL)

\* the poll as the call log of a run that has ended shows it
PollBounded ==
  last.op = "forkRepo" =>
    /\ PollSoFar(last.calls)
    /\ \A i \in 1..Len(last.calls) :
         last.calls[i] = REPOS_GET_FAIL =>
           (i < Len(last.calls) /\ last.calls[i + 1] = DELAY_2S)

\* every run of forkRepo that has ended has ended with an outcome
ForkRunEnded ==
  last.op = "forkRepo" =>
    /\ ~last.threw
    /\ last.success <=> last.message = MSG_FORK_OK
    /\ ~last.success =>
         last.message \in {MSG_NO_GITHUB, MSG_NO_GOOGLE, MSG_NO_SHEET_ID,
                           MSG_NO_FORK, MSG_FORK_ERROR}

\* a run followed await by await ends as the flow taken as one step does
EndsAsWhole ==
  run.pc = "ended" =>
    /\ last = ForkRepoRun(session, run.gh0, run.ext).last
    /\ github = ForkRepoRun(session, run.gh0, run.ext).github

\* C25: the fork-visibility poll makes at most 5 repository lookups, stops at
\* the first one that succeeds and waits only after one that failed; every
\* forkRepo run that was started comes to its end, with a success or failure
\* outcome, whatever the services answer.
C25_PollBoundedRunEnds ==
  /\ [](PollSoFar(run.calls) /\ PollBounded /\ ForkRunEnded /\ EndsAsWhole)
  /\ (run.pc # "idle") ~> (run.pc = "ended")

\* C25 witness: the fork was found at the fifth and last lookup, after four
\* waits, and the run went on to succeed
C25_Witness ==
  /\ run.pc = "ended"
  /\ last.op = "forkRepo"
  /\ last.success
  /\ Count(last.calls, REPOS_GET_FAIL) = 4
  /\ Count(last.calls, DELAY_2S) = 4
  /\ Count(last.calls, REPOS_GET_OK) = 1

(***************************************************************************)
(* A video without metadata                                                *)
(***************************************************************************)
NoMetadataAnswers == {"missing", "nosnippet"}

\* a run whose metadata fetch answered with no item, or an item without a
\* snippet: the metadata failure, no generative call, no append, same sheets
NoMetadataStep ==
  (last'.op = "addUrlToSheet" /\ last'.answer \in NoMetadataAnswers) =>
     /\ ~last'.success
     /\ ~last'.threw
     /\ last'.message = MSG_NO_METADATA
     /\ LastOf(last'.calls) = CALL_FETCH
     /\ ~Has(last'.calls, CALL_REWRITE)
     /\ ~Has(last'.calls, CALL_APPEND)
     /\ files' = files

\* C26: when the metadata fetch returns no item, or an item without a snippet,
\* addUrlToSheet returns the metadata-unavailable failure, makes no generative
\* call and appends no row: the sheet is as it was.
C26_NoMetadataNoAppend == [][NoMetadataStep]_vars

\* C26 witness: a run on a sheet that already has a row was answered with an
\* item that has no snippet
C26_Witness ==
  /\ last.op = "addUrlToSheet"
  /\ last.answer = "nosnippet"
  /\ last.message = MSG_NO_METADATA
  /\ \E i \in 1..Len(files) : Len(files[i].rows) > 0

(***************************************************************************)
(* Appends need a connected session and the sheet createSheet stored       *)
(***************************************************************************)
\* the documents that differ between two drives of the same length
ChangedDocs(before, after) ==
  {i \in 1..Len(after) : i > Len(before) \/ after[i] # before[i]}

\* a step that appended a row: the session held Google tokens and a sheet
\* identifier, and the row went to the document of that identifier and nowhere
\* else
AppendNeedsSessionStep ==
  (last'.op = "addUrlToSheet" /\ files' # files) =>
     /\ session.google_tokens.present
     /\ session.sheet_id # ""
     /\ session'.google_tokens.present
     /\ session'.sheet_id = session.sheet_id
     /\ last'.success
     /\ Len(files') = Len(files)
     /\ \E k \in 1..Len(files) :
          /\ files[k].id = session.sheet_id
          /\ ChangedDocs(files, files') = {k}
          /\ files'[k] = [files[k] EXCEPT !.rows = Append(@, last'.row)]

\* an addUrlToSheet run that called the append and was not refused changed
\* the sheet
AppendedStep ==
  (last'.op = "addUrlToSheet" /\ last'.success) =>
     (Has(last'.calls, CALL_APPEND) /\ files' # files)

\* the stored sheet identifier changes only in a createSheet run that
\* succeeded, to the identifier that run returned
SheetIdFromCreateSheetStep ==
  session'.sheet_id # session.sheet_id =>
     /\ last'.op = "createSheet"
     /\ last'.success
     /\ session'.sheet_id = last'.sheetId
     /\ \E k \in 1..Len(files') : files'[k].id = last'.sheetId

\* a session starts without a sheet identifier
NoSheetAtStart == last.op = "init" => session.sheet_id = ""

\* C27: addUrlToSheet appends a row only when the session holds google_tokens
\* and a sheet_id; sheet_id is set in the session only by a createSheet call
\* that succeeded, so every append comes after a successful createSheet of the
\* same session, and the row goes to exactly the stored document.
C27_AppendOnlyToStoredSheet ==
  /\ []NoSheetAtStart
  /\ [][AppendNeedsSessionStep /\ AppendedStep /\ SheetIdFromCreateSheetStep]_vars

\* C27 witness: a row was appended to the stored document, which is not the
\* first document of the drive
C27_Witness ==
  /\ last.op = "addUrlToSheet"
  /\ last.success
  /\ Len(files) > 1
  /\ files[1].id # session.sheet_id
  /\ \E k \in 2..Len(files) :
       files[k].id = session.sheet_id /\ LastOf(files[k].rows) = last.row

(***************************************************************************)
(* Which request's return URL a callback uses                              *)
(***************************************************************************)
\* a callback of a provider whose request is waiting for it goes to the URL
\* that request stored
OwnRequestUrlStep ==
  /\ (last'.op = "googleCallback" /\ asked.google # "") =>
        last'.redirect = asked.google
  /\ (last'.op = "githubCallback" /\ asked.github # "") =>
        last'.redirect = asked.github

\* C28 as stated: each provider's callback redirects to the return URL stored
\* by that same provider's most recent authorization request, whatever the
\* interleaving of the two providers' requests and callbacks.
C28_OwnRequestUrl == [][OwnRequestUrlStep]_vars

\* a callback goes to the URL stored by the most recent request of either
\* provider, and to the site root when a callback has used it already
SharedRequestUrlStep ==
  last'.op \in {"googleCallback", "githubCallback"} =>
     /\ last'.redirect = (IF asked.pending = "" THEN "/" ELSE asked.pending)
     /\ session'.redirectUrl = ""
     /\ asked'.pending = ""

\* the stored return URL is the one of the history
PendingIsStored == asked.on => session.redirectUrl = asked.pending

\* C28 amended: each provider's callback redirects to the return URL stored by
\* the most recent authorization request of either provider, the two sharing
\* the single session field redirectUrl, and to '/' when a callback has
\* already used that URL, for every interleaving of requests and callbacks.
C28_LatestRequestUrl == []PendingIsStored /\ [][SharedRequestUrlStep]_vars

\* C28 witness: Google's callback went to the URL of GitHub's request, made
\* after Google's own and still waiting for its callback
C28_Witness ==
  /\ last.op = "googleCallback"
  /\ last.success
  /\ asked.google = ""
  /\ asked.github # ""
  /\ last.redirect = asked.github

(***************************************************************************)
(* The wizard's step                                                       *)
(***************************************************************************)
\* the step of an open page is one of the five, and it is the stored one
StepInRange ==
  page.open =>
    /\ page.step \in 1..5
    /\ page.step = (IF page.stored = 0 THEN 1 ELSE page.stored)

\* the completions of the four steps
Completed ==
  \/ last'.op \in {"effectGoogle", "effectGithub"}
  \/ last'.op = "createSheet" /\ last'.success /\ last'.sheetId # ""
  \/ last'.op = "forkRepo" /\ last'.success

\* what a step of the wizard does to the step number
WizardStep ==
  /\ Completed =>
       /\ page'.step = page.step + 1
       /\ page'.step <= 5
       /\ page'.stored = page'.step
  /\ last'.op = "effectGoogle" => (page.step = 1 /\ page'.step = 2)
  /\ last'.op = "effectGithub" => (page.step = 3 /\ page'.step = 4)
  /\ page'.step > page.step => Completed
  /\ page'.step < page.step => last'.op = "resetSetup"
  /\ last'.op = "resetSetup" =>
       /\ page'.step = 1
       /\ ~page'.isGoogleConnected
       /\ ~page'.isGithubConnected
  /\ (page'.open /\ page'.isGoogleConnected /\ page'.step = 1) =>
       (last'.op = "openPage" \/ page' = page)
  /\ (page'.open /\ page'.isGithubConnected /\ page'.step = 3) =>
       (last'.op \in {"openPage", "createSheet"} \/ page' = page)

\* C29: the wizard's step is always in 1..5 and equals the value stored under
\* 'autotube-step' after each completion; a completion advances it by exactly
\* one and never past 5; an auth-success indicator advances it by one step
\* only (1 to 2 for Google, 3 to 4 for GitHub); it decreases only through
\* resetSetup, which returns it to 1 and clears both connected flags.
C29_StepAdvancesByOne == []StepInRange /\ [][WizardStep]_vars

\* C29 witness: Start Over on the dashboard, reached through all four steps
C29_Witness ==
  /\ last.op = "resetSetup"
  /\ page.open
  /\ page.step = 1
  /\ github.forked
  /\ session.sheet_id # ""

(***************************************************************************)
(* The wizard's step and the session                                       *)
(***************************************************************************)
\* C30: the wizard's step is consistent with what the session records: at
\* step 2 or higher the session holds google_tokens, at 3 or higher a
\* sheet_id, at 4 or higher a github_token, after any sequence of callbacks,
\* completions, token-refresh failures, page reloads and resetSetup.
C30_StepMatchesSession ==
  page.open =>
    /\ page.step >= 2 => session.google_tokens.present
    /\ page.step >= 3 => session.sheet_id # ""
    /\ page.step >= 4 => session.github_token # ""

====
